---- MODULE Spec2Model ----
(***************************************************************************)
(* BLE tracker: ingestion and presence subsystem.                          *)
(*                                                                         *)
(* Python values are modelled as follows.                                  *)
(*   - a str is a sequence of one-character strings;                       *)
(*   - an argument a caller passes is a tagged record: PyStr(chars),       *)
(*     PyInt(n), PyFloat, PyNone;                                          *)
(*   - an optional value (None or x) is <<>> or <<x>>;                     *)
(*   - an instant is an integer number of seconds since the epoch.         *)
(***************************************************************************)
EXTENDS Integers, Sequences, FiniteSets, TLC

VARIABLES
    sightings,   \* rows of the ble_sightings table, in insertion order
    nextId,      \* the id the store assigns to the next inserted row
    now,         \* the wall clock (index into ClockReadings)
    result,      \* the outcome of the last operation called
    registry,    \* the dicts of the TAGS list, as they are now
    calls        \* per concurrent caller, the ingest call it is in

vars == <<sightings, nextId, now, result, registry, calls>>

\* ------------------------------------------------------------------ values

None == <<>>
Some(x) == <<x>>
IsNone(o) == o = <<>>
Get(o) == o[1]

PyNone == [t |-> "none"]
PyStr(chars) == [t |-> "str", v |-> chars]
PyInt(n) == [t |-> "int", v |-> n]
PyFloat == [t |-> "float"]
\* a packet that is no dict (a JSON string, number, null or list)
PyNotADict == [t |-> "notdict"]

Range(s) == {s[i] : i \in 1..Len(s)}

\* F applied to the value of v, v being evaluated once
With(v, F(_)) == CHOOSE r \in {F(x) : x \in {v}} : TRUE

\* ---------------------------------------------------------------- mac_utils

\* the characters the pattern [:\-\.\s] matches
Separators == {":", "-", ".", " ", "\t", "\n", "\r", "\f"}
HexUpper == {"0", "1", "2", "3", "4", "5", "6", "7", "8", "9",
             "A", "B", "C", "D", "E", "F"}

\* str.upper() on one character (ASCII)
Upper(c) ==
    CASE c = "a" -> "A" [] c = "b" -> "B" [] c = "c" -> "C" [] c = "d" -> "D"
      [] c = "e" -> "E" [] c = "f" -> "F" [] c = "g" -> "G" [] c = "h" -> "H"
      [] c = "i" -> "I" [] c = "j" -> "J" [] c = "k" -> "K" [] c = "l" -> "L"
      [] c = "m" -> "M" [] c = "n" -> "N" [] c = "o" -> "O" [] c = "p" -> "P"
      [] c = "q" -> "Q" [] c = "r" -> "R" [] c = "s" -> "S" [] c = "t" -> "T"
      [] c = "u" -> "U" [] c = "v" -> "V" [] c = "w" -> "W" [] c = "x" -> "X"
      [] c = "y" -> "Y" [] c = "z" -> "Z"
      [] OTHER -> c

\* str.lower() on one character (ASCII)
Lower(c) ==
    CASE c = "A" -> "a" [] c = "B" -> "b" [] c = "C" -> "c" [] c = "D" -> "d"
      [] c = "E" -> "e" [] c = "F" -> "f" [] c = "G" -> "g" [] c = "H" -> "h"
      [] c = "I" -> "i" [] c = "J" -> "j" [] c = "K" -> "k" [] c = "L" -> "l"
      [] c = "M" -> "m" [] c = "N" -> "n" [] c = "O" -> "o" [] c = "P" -> "p"
      [] c = "Q" -> "q" [] c = "R" -> "r" [] c = "S" -> "s" [] c = "T" -> "t"
      [] c = "U" -> "u" [] c = "V" -> "v" [] c = "W" -> "w" [] c = "X" -> "x"
      [] c = "Y" -> "y" [] c = "Z" -> "z"
      [] OTHER -> c

RECURSIVE StripSeparators(_)
\* re.sub(r'[:\-\.\s]', '', mac_address)
StripSeparators(s) ==
    IF s = <<>> THEN <<>>
    ELSE IF Head(s) \in Separators THEN StripSeparators(Tail(s))
    ELSE <<Head(s)>> \o StripSeparators(Tail(s))

\* the cleaning without the upper-casing
CleanMac_KeepsCase(s) == StripSeparators(s)

\* re.sub(...).upper()
CleanMac(s) ==
    LET stripped == StripSeparators(s)
    IN [i \in 1..Len(stripped) |-> Upper(stripped[i])]

\* ':'.join(clean_mac[i:i+2] for i in range(0, 12, 2))
InsertColons(clean) ==
    [i \in 1..17 |-> IF i % 3 = 0 THEN ":" ELSE clean[i - (i \div 3)]]

\* the checks of normalize_mac without the one on the characters
NormalizeFails_SkipsHexCheck(mac) ==
    IF mac.t # "str" THEN TRUE
    ELSE IF mac.v = <<>> THEN TRUE
    ELSE Len(CleanMac(mac.v)) # 12

\* normalize_mac raises ValueError: not a str or empty, length, hex characters
NormalizeFails(mac) ==
    IF mac.t # "str" THEN TRUE
    ELSE IF mac.v = <<>> THEN TRUE
    ELSE LET clean_mac == CleanMac(mac.v)
         IN IF Len(clean_mac) # 12 THEN TRUE
            ELSE ~(Range(clean_mac) \subseteq HexUpper)

\* normalize_mac's return value (where it does not raise)
NormalizeMac(mac) ==
    LET clean_mac == CleanMac(mac.v)
    IN InsertColons(clean_mac)

\* normalize_mac(mac_address): the normalized mac, or ValueError
normalize_mac(mac_address) ==
    IF NormalizeFails(mac_address) THEN [raised |-> Some([type |-> "ValueError"])]
    ELSE [raised |-> None, value |-> NormalizeMac(mac_address)]

\* --------------------------------------------------------------------- tags

RosterPrefix == <<"A", "A", ":", "B", "B", ":", "C", "C", ":", "D", "D", ":", "E", "E", ":">>

Tag(name, last, type, attrs) ==
    [name |-> name, mac |-> RosterPrefix \o last, type |-> type, attrs |-> attrs]

TAGS == <<
    Tag("WHEELCHAIR_A", <<"0", "1">>, "equipment", [location |-> "ward_a"]),
    Tag("WHEELCHAIR_B", <<"0", "2">>, "equipment", [location |-> "ward_b"]),
    Tag("WHEELCHAIR_C", <<"0", "3">>, "equipment", [location |-> "emergency"]),
    Tag("PATIENT_1", <<"0", "4">>, "patient", [room |-> "201"]),
    Tag("PATIENT_2", <<"0", "5">>, "patient", [room |-> "202"]),
    Tag("PATIENT_3", <<"0", "6">>, "patient", [room |-> "icu_1"]),
    Tag("NURSE_1", <<"0", "7">>, "staff", [role |-> "head_nurse"]),
    Tag("NURSE_2", <<"0", "8">>, "staff", [role |-> "rn"]),
    Tag("DOCTOR_1", <<"0", "9">>, "staff", [role |-> "surgeon"]),
    Tag("IV_PUMP_1", <<"0", "A">>, "equipment", [location |-> "pharmacy"]),
    Tag("DEFIB_1", <<"0", "B">>, "equipment", [location |-> "emergency"]),
    Tag("VENTILATOR_1", <<"0", "C">>, "equipment", [location |-> "icu_1"])
>>

\* the normalized macs of the roster, in roster order
RosterKeys == [i \in 1..Len(TAGS) |-> NormalizeMac(PyStr(TAGS[i].mac))]

\* The module builds the index at import, in a loop that calls normalize_mac
\* above the line that defines it; the definitions below are the index that
\* loop builds once normalize_mac is bound.
\* TAG_BY_MAC: the dict the loop over TAGS builds, keyed by normalized mac
\* (a later tag with the same normalized mac overwrites an earlier one)
TAG_BY_MAC ==
    [key \in Range(RosterKeys) |->
        TAGS[CHOOSE i \in 1..Len(TAGS) :
                /\ RosterKeys[i] = key
                /\ \A j \in 1..Len(TAGS) : RosterKeys[j] = key => j <= i]]

\* get_tag_by_mac: Some(tag), or None (unknown mac, or mac that does not normalize)
get_tag_by_mac(mac) ==
    IF NormalizeFails(mac) THEN None
    ELSE LET normalized_mac == NormalizeMac(mac)
         IN IF normalized_mac \in DOMAIN TAG_BY_MAC THEN Some(TAG_BY_MAC[normalized_mac])
            ELSE None

\* get_all_tags: a copy of the roster, in roster order
get_all_tags == TAGS

\* the position in the roster of the dict that TAG_BY_MAC holds under the key
RosterPosition(key) ==
    CHOOSE i \in 1..Len(TAGS) :
        /\ RosterKeys[i] = key
        /\ \A j \in 1..Len(TAGS) : RosterKeys[j] = key => j <= i

\* get_tag_by_mac, tags being the dicts of the roster as they are now: the
\* dict itself is returned, not a copy of it
get_tag_by_mac_in(tags, mac) ==
    IF NormalizeFails(mac) THEN None
    ELSE LET normalized_mac == NormalizeMac(mac)
         IN IF normalized_mac \in DOMAIN TAG_BY_MAC
            THEN Some(tags[RosterPosition(normalized_mac)])
            ELSE None

\* get_all_tags, tags being the dicts of the roster as they are now:
\* TAGS.copy() is a new list of the same dicts
get_all_tags_in(tags) == tags

\* ------------------------------------------------------------------- config

\* settings.TAG_TIMEOUT_MINUTES: the presence timeout
TAG_TIMEOUT_MINUTES == 5

\* the clock readings at which operations are called, in seconds since the epoch
T0 == 200000
ClockReadings == <<T0, T0 + 60 * TAG_TIMEOUT_MINUTES + 1>>

\* utc_now() / datetime.utcnow()
utc_now(clock) == ClockReadings[clock]

\* ---------------------------------------------------------------- validator

Raise(type) == [type |-> type]
Raised(type) == [raised |-> Some(Raise(type))]
Ok(value) == [raised |-> None, value |-> value]

\* BLEPacketValidator.validate_mac: delegates to normalize_mac
validate_mac(mac) ==
    IF NormalizeFails(mac) THEN Raised("InvalidMACException") ELSE Ok(NormalizeMac(mac))

\* BLEPacketValidator.validate_rssi: an integer, no range check
validate_rssi(rssi) ==
    IF rssi.t = "int" THEN Ok(rssi.v) ELSE Raised("InvalidRSSIException")

\* BLEPacketValidator.validate_timestamp: absent stays absent (the pipeline
\* defaults it), a numeric epoch is that instant, an unsupported type fails
validate_timestamp(timestamp) ==
    CASE timestamp.t = "none" -> Ok(None)
      [] timestamp.t = "int" -> Ok(Some(timestamp.v))
      [] OTHER -> Raised("InvalidTimestamp")

\* an IPv4 literal is given by the numbers between its dots
PyIp(parts) == [t |-> "ip", parts |-> parts]

\* BLEPacketValidator.validate_gateway_ip: absent, or a valid IPv4 literal
validate_gateway_ip(gateway_ip) ==
    CASE gateway_ip.t = "none" -> Ok(None)
      [] gateway_ip.t = "ip" /\ Len(gateway_ip.parts) = 4
            /\ \A i \in 1..4 : gateway_ip.parts[i] \in 0..255 -> Ok(Some(gateway_ip.parts))
      [] OTHER -> Raised("InvalidGatewayIp")

\* ----------------------------------------------------------- ingest_service

\* the session: the rows written and the next id the store assigns
Db(rows, id) == [sightings |-> rows, nextId |-> id]

\* an insert that replaces the row already stored for the mac
create_sighting_record_ReplacesRowOfMac(db, clock, mac, rssi, timestamp, tag_name, gateway_ip, dbError) ==
    LET sighting == [id |-> db.nextId, mac |-> mac, rssi |-> rssi,
                     ts_utc |-> IF IsNone(timestamp) THEN utc_now(clock) ELSE Get(timestamp),
                     tag_name |-> tag_name, gateway_ip |-> gateway_ip]
        kept == SelectSeq(db.sightings, LAMBDA s : s.mac # mac)
    IN IF IsNone(dbError)
       THEN [raised |-> None, value |-> sighting,
             db |-> Db(Append(kept, sighting), db.nextId + 1), inserts |-> 1]
       ELSE [raised |-> Some([type |-> "DatabaseException", operation |-> "create_sighting",
                              mac |-> mac, error |-> Get(dbError)]),
             db |-> db, inserts |-> 1]

\* create_sighting_record retrying the insert once after a failure
create_sighting_record_Retries(db, clock, mac, rssi, timestamp, tag_name, gateway_ip, dbError) ==
    LET sighting == [id |-> db.nextId, mac |-> mac, rssi |-> rssi,
                     ts_utc |-> IF IsNone(timestamp) THEN utc_now(clock) ELSE Get(timestamp),
                     tag_name |-> tag_name, gateway_ip |-> gateway_ip]
    IN [raised |-> None, value |-> sighting,
        db |-> Db(Append(db.sightings, sighting), db.nextId + 1),
        inserts |-> IF IsNone(dbError) THEN 1 ELSE 2]

\* create_sighting_record with a store that hands out the same id again
create_sighting_record_KeepsNextId(db, clock, mac, rssi, timestamp, tag_name, gateway_ip, dbError) ==
    LET sighting == [id |-> db.nextId, mac |-> mac, rssi |-> rssi,
                     ts_utc |-> IF IsNone(timestamp) THEN utc_now(clock) ELSE Get(timestamp),
                     tag_name |-> tag_name, gateway_ip |-> gateway_ip]
    IN IF IsNone(dbError)
       THEN [raised |-> None, value |-> sighting,
             db |-> Db(Append(db.sightings, sighting), db.nextId), inserts |-> 1]
       ELSE [raised |-> Some([type |-> "DatabaseException", operation |-> "create_sighting",
                              mac |-> mac, error |-> Get(dbError)]),
             db |-> db, inserts |-> 1]

\* _create_sighting_record: BLESighting(...), db.add, db.flush; any exception
\* becomes DatabaseException("create_sighting", {"mac": mac, "error": str(e)}).
\* dbError is None, or Some(cause) when the store raises on this insert.
create_sighting_record(db, clock, mac, rssi, timestamp, tag_name, gateway_ip, dbError) ==
    LET sighting == [id |-> db.nextId, mac |-> mac, rssi |-> rssi,
                     ts_utc |-> IF IsNone(timestamp) THEN utc_now(clock) ELSE Get(timestamp),
                     tag_name |-> tag_name, gateway_ip |-> gateway_ip]
    IN IF IsNone(dbError)
       THEN [raised |-> None, value |-> sighting,
             db |-> Db(Append(db.sightings, sighting), db.nextId + 1), inserts |-> 1]
       ELSE [raised |-> Some([type |-> "DatabaseException", operation |-> "create_sighting",
                              mac |-> mac, error |-> Get(dbError)]),
             db |-> db, inserts |-> 1]

\* what a call that raised before touching the store leaves behind
Abort(out, db) == [raised |-> out.raised, db |-> db, inserts |-> 0]

\* ingest_packet creating the record before it validates the gateway address
ingest_packet_WritesBeforeGatewayCheck(db, clock, mac, rssi, timestamp, gateway_ip, dbError) ==
    LET normalized_mac == validate_mac(mac)
        validated_rssi == validate_rssi(rssi)
        validated_ts == validate_timestamp(timestamp)
        validated_ip == validate_gateway_ip(gateway_ip)
    IN IF ~IsNone(normalized_mac.raised) THEN Abort(normalized_mac, db)
       ELSE IF ~IsNone(validated_rssi.raised) THEN Abort(validated_rssi, db)
       ELSE IF ~IsNone(validated_ts.raised) THEN Abort(validated_ts, db)
       ELSE
         LET tag_info == get_tag_by_mac(PyStr(normalized_mac.value))
             tag_name == IF IsNone(tag_info) THEN None ELSE Some(Get(tag_info).name)
             created == create_sighting_record(db, clock, normalized_mac.value,
                            validated_rssi.value, validated_ts.value, tag_name,
                            None, dbError)
         IN IF ~IsNone(created.raised) THEN created
            ELSE IF ~IsNone(validated_ip.raised)
            THEN [raised |-> validated_ip.raised, db |-> created.db, inserts |-> 1]
            ELSE [raised |-> None,
                  value |-> [status |-> "ok",
                             known_tag |-> ~IsNone(tag_info),
                             mac |-> normalized_mac.value,
                             tag_name |-> tag_name,
                             tag_info |-> tag_info,
                             sighting_id |-> created.value.id,
                             timestamp |-> created.value.ts_utc,
                             rssi |-> validated_rssi.value],
                  db |-> created.db, inserts |-> created.inserts]

\* ingest_packet rejecting a mac that is not in the registry
ingest_packet_RejectsUnknown(db, clock, mac, rssi, timestamp, gateway_ip, dbError) ==
    LET normalized_mac == validate_mac(mac)
        validated_rssi == validate_rssi(rssi)
        validated_ts == validate_timestamp(timestamp)
        validated_ip == validate_gateway_ip(gateway_ip)
    IN IF ~IsNone(normalized_mac.raised) THEN Abort(normalized_mac, db)
       ELSE IF ~IsNone(validated_rssi.raised) THEN Abort(validated_rssi, db)
       ELSE IF ~IsNone(validated_ts.raised) THEN Abort(validated_ts, db)
       ELSE IF ~IsNone(validated_ip.raised) THEN Abort(validated_ip, db)
       ELSE
         LET tag_info == get_tag_by_mac(PyStr(normalized_mac.value))
             tag_name == IF IsNone(tag_info) THEN None ELSE Some(Get(tag_info).name)
             created == create_sighting_record(db, clock, normalized_mac.value,
                            validated_rssi.value, validated_ts.value, tag_name,
                            validated_ip.value, dbError)
         IN IF IsNone(tag_info)
            THEN [raised |-> Some([type |-> "TagNotFoundException",
                                   mac |-> PyStr(normalized_mac.value)]),
                  db |-> db, inserts |-> 0]
            ELSE IF ~IsNone(created.raised) THEN created
            ELSE [raised |-> None,
                  value |-> [status |-> "ok",
                             known_tag |-> ~IsNone(tag_info),
                             mac |-> normalized_mac.value,
                             tag_name |-> tag_name,
                             tag_info |-> tag_info,
                             sighting_id |-> created.value.id,
                             timestamp |-> created.value.ts_utc,
                             rssi |-> validated_rssi.value],
                  db |-> created.db, inserts |-> created.inserts]

\* ingest_packet storing the mac as the caller wrote it
ingest_packet_StoresRawMac(db, clock, mac, rssi, timestamp, gateway_ip, dbError) ==
    LET normalized_mac == validate_mac(mac)
        validated_rssi == validate_rssi(rssi)
        validated_ts == validate_timestamp(timestamp)
        validated_ip == validate_gateway_ip(gateway_ip)
    IN IF ~IsNone(normalized_mac.raised) THEN Abort(normalized_mac, db)
       ELSE IF ~IsNone(validated_rssi.raised) THEN Abort(validated_rssi, db)
       ELSE IF ~IsNone(validated_ts.raised) THEN Abort(validated_ts, db)
       ELSE IF ~IsNone(validated_ip.raised) THEN Abort(validated_ip, db)
       ELSE
         LET tag_info == get_tag_by_mac(PyStr(normalized_mac.value))
             tag_name == IF IsNone(tag_info) THEN None ELSE Some(Get(tag_info).name)
             created == create_sighting_record(db, clock, mac.v,
                            validated_rssi.value, validated_ts.value, tag_name,
                            validated_ip.value, dbError)
         IN IF ~IsNone(created.raised) THEN created
            ELSE [raised |-> None,
                  value |-> [status |-> "ok",
                             known_tag |-> ~IsNone(tag_info),
                             mac |-> normalized_mac.value,
                             tag_name |-> tag_name,
                             tag_info |-> tag_info,
                             sighting_id |-> created.value.id,
                             timestamp |-> created.value.ts_utc,
                             rssi |-> validated_rssi.value],
                  db |-> created.db, inserts |-> created.inserts]

\* ingest_packet(mac, rssi, timestamp, gateway_ip): steps 1-8
ingest_packet(db, clock, mac, rssi, timestamp, gateway_ip, dbError) ==
    LET normalized_mac == validate_mac(mac)
        validated_rssi == validate_rssi(rssi)
        validated_ts == validate_timestamp(timestamp)
        validated_ip == validate_gateway_ip(gateway_ip)
    IN IF ~IsNone(normalized_mac.raised) THEN Abort(normalized_mac, db)
       ELSE IF ~IsNone(validated_rssi.raised) THEN Abort(validated_rssi, db)
       ELSE IF ~IsNone(validated_ts.raised) THEN Abort(validated_ts, db)
       ELSE IF ~IsNone(validated_ip.raised) THEN Abort(validated_ip, db)
       ELSE
         LET tag_info == get_tag_by_mac(PyStr(normalized_mac.value))
             tag_name == IF IsNone(tag_info) THEN None ELSE Some(Get(tag_info).name)
             created == create_sighting_record(db, clock, normalized_mac.value,
                            validated_rssi.value, validated_ts.value, tag_name,
                            validated_ip.value, dbError)
         IN IF ~IsNone(created.raised) THEN created
            ELSE [raised |-> None,
                  value |-> [status |-> "ok",
                             known_tag |-> ~IsNone(tag_info),
                             mac |-> normalized_mac.value,
                             tag_name |-> tag_name,
                             tag_info |-> tag_info,
                             sighting_id |-> created.value.id,
                             timestamp |-> created.value.ts_utc,
                             rssi |-> validated_rssi.value],
                  db |-> created.db, inserts |-> created.inserts]

\* a raw packet that is a dict: a key that is missing is None, a key that is
\* present is Some(value)
Packet(mac, rssi, timestamp, gateway_ip) ==
    [t |-> "dict", mac |-> mac, rssi |-> rssi, timestamp |-> timestamp,
     gateway_ip |-> gateway_ip]

\* dict.get(key): the value, or None when the key is missing
DictGet(entry) == IF IsNone(entry) THEN PyNone ELSE Get(entry)

\* dict.get(key, "unknown")
DictGetOrUnknown(entry) ==
    IF IsNone(entry) THEN PyStr(<<"u", "n", "k", "n", "o", "w", "n">>) ELSE Get(entry)

\* the loop body putting the newest failure record first
batch_step_PrependsErrors(acc, clock, i, packet, dbError) ==
    IF ~IsNone(acc.raised) THEN acc
    ELSE IF packet.t # "dict"
    THEN [acc EXCEPT !.raised = Some(Raise("AttributeError")),
                     !.results.failed = @ + 1]
    ELSE
      With(ingest_packet(acc.db, clock, DictGet(packet.mac), DictGet(packet.rssi),
                         DictGet(packet.timestamp), DictGet(packet.gateway_ip), dbError),
           LAMBDA out :
             IF IsNone(out.raised)
             THEN [acc EXCEPT !.db = out.db,
                              !.results.successful = @ + 1,
                              !.results.results = Append(@, out.value)]
             ELSE [acc EXCEPT !.db = out.db,
                              !.results.failed = @ + 1,
                              !.results.errors = <<[index |-> i,
                                                    mac |-> DictGetOrUnknown(packet.mac),
                                                    error |-> Get(out.raised)]>> \o @])

\* the body of batch_ingest's loop for the packet at zero-based index i:
\* acc holds the results dict, the session and whether the call has raised
batch_step(acc, clock, i, packet, dbError) ==
    IF ~IsNone(acc.raised) THEN acc
    ELSE IF packet.t # "dict"
    \* packet.get raises AttributeError in the try block and again in the handler
    THEN [acc EXCEPT !.raised = Some(Raise("AttributeError")),
                     !.results.failed = @ + 1]
    ELSE
      With(ingest_packet(acc.db, clock, DictGet(packet.mac), DictGet(packet.rssi),
                         DictGet(packet.timestamp), DictGet(packet.gateway_ip), dbError),
           LAMBDA out :
             IF IsNone(out.raised)
             THEN [acc EXCEPT !.db = out.db,
                              !.results.successful = @ + 1,
                              !.results.results = Append(@, out.value)]
             ELSE [acc EXCEPT !.db = out.db,
                              !.results.failed = @ + 1,
                              !.results.errors = Append(@, [index |-> i,
                                                            mac |-> DictGetOrUnknown(packet.mac),
                                                            error |-> Get(out.raised)])])

RECURSIVE batch_loop(_, _, _, _, _)
\* for i, packet in enumerate(packets), from zero-based index i on
batch_loop(acc, clock, packets, dbErrors, i) ==
    IF i >= Len(packets) THEN acc
    ELSE With(batch_step(acc, clock, i, packets[i + 1], dbErrors[i + 1]),
              LAMBDA next : batch_loop(next, clock, packets, dbErrors, i + 1))

\* batch_ingest(packets): the results dict, or the exception that escapes it
batch_ingest(db, clock, packets, dbErrors) ==
    LET start == [raised |-> None, db |-> db,
                  results |-> [total |-> Len(packets), successful |-> 0, failed |-> 0,
                               errors |-> <<>>, results |-> <<>>]]
    IN With(batch_loop(start, clock, packets, dbErrors, 0),
            LAMBDA end :
              IF IsNone(end.raised)
              THEN [raised |-> None, value |-> end.results, db |-> end.db]
              ELSE [raised |-> end.raised, db |-> end.db])

\* -------------------------------------------------------------- tag_service

RowsOf(rows, mac) == {r \in Range(rows) : r.mac = mac}

\* the query returning the row of the mac that was inserted last
FirstByTsDesc_LastInserted(rows, mac) ==
    IF RowsOf(rows, mac) = {} THEN {None}
    ELSE {Some(r) : r \in {x \in RowsOf(rows, mac) :
                            \A y \in RowsOf(rows, mac) : y.id <= x.id}}

\* query.filter(mac == m).order_by(desc(ts_utc)).first(): None, or one of the
\* rows of m with the greatest ts_utc (the store picks among equal timestamps)
FirstByTsDesc(rows, mac) ==
    IF RowsOf(rows, mac) = {} THEN {None}
    ELSE {Some(r) : r \in {x \in RowsOf(rows, mac) :
                            \A y \in RowsOf(rows, mac) : y.ts_utc <= x.ts_utc}}

\* the signal strength category of _get_tag_status
signal_strength(latest_sighting) ==
    IF ~IsNone(latest_sighting) /\ Get(latest_sighting).rssi # 0
    THEN IF Get(latest_sighting).rssi >= -50 THEN Some("excellent")
         ELSE IF Get(latest_sighting).rssi >= -65 THEN Some("good")
         ELSE IF Get(latest_sighting).rssi >= -80 THEN Some("fair")
         ELSE Some("poor")
    ELSE None

\* the presence calculation with a strict comparison
is_present_StrictlyLess(clock, latest_sighting) ==
    IF IsNone(latest_sighting) THEN FALSE
    ELSE utc_now(clock) - Get(latest_sighting).ts_utc < TAG_TIMEOUT_MINUTES * 60

\* the presence calculation of _get_tag_status:
\* (utc_now() - ts_utc).total_seconds() / 60 <= TAG_TIMEOUT_MINUTES
is_present(clock, latest_sighting) ==
    IF IsNone(latest_sighting) THEN FALSE
    ELSE utc_now(clock) - Get(latest_sighting).ts_utc <= TAG_TIMEOUT_MINUTES * 60

\* tag_info.get("location") or tag_info.get("room")
LocationOf(attrs) ==
    IF "location" \in DOMAIN attrs THEN Some(attrs.location)
    ELSE IF "room" \in DOMAIN attrs THEN Some(attrs.room)
    ELSE None

\* the keys of tag_info other than name, mac, type, location, room
MetadataOf(attrs) == [k \in DOMAIN attrs \ {"location", "room"} |-> attrs[k]]

\* _get_tag_status(normalized_mac, tag_info), latest_sighting being the row the
\* query returned
get_tag_status_internal(clock, normalized_mac, tag_info, latest_sighting) ==
    LET info == IF ~IsNone(tag_info) THEN tag_info ELSE get_tag_by_mac(PyStr(normalized_mac))
    IN [name |-> IF IsNone(info) THEN "unknown" ELSE Get(info).name,
        mac |-> normalized_mac,
        type |-> IF IsNone(info) THEN "unknown" ELSE Get(info).type,
        is_present |-> is_present(clock, latest_sighting),
        last_seen_utc |-> IF IsNone(latest_sighting) THEN None
                          ELSE Some(Get(latest_sighting).ts_utc),
        last_rssi |-> IF IsNone(latest_sighting) THEN None
                      ELSE Some(Get(latest_sighting).rssi),
        location |-> IF IsNone(info) THEN None ELSE LocationOf(Get(info).attrs),
        metadata |-> IF IsNone(info) THEN <<>> ELSE MetadataOf(Get(info).attrs),
        signal_strength |-> signal_strength(latest_sighting)]

\* get_tag_status without the lookup in the registry
get_tag_status_SkipsRegistry(clock, mac_address, latest_sighting, dbError) ==
    IF NormalizeFails(mac_address)
    THEN [raised |-> Some([type |-> "TagNotFoundException", mac |-> mac_address])]
    ELSE IF ~IsNone(dbError) THEN [raised |-> Some(Raise(Get(dbError)))]
    ELSE Ok(get_tag_status_internal(clock, NormalizeMac(mac_address),
                get_tag_by_mac(PyStr(NormalizeMac(mac_address))), latest_sighting))

\* get_tag_status(mac_address); dbError is Some(cause) when the query raises
get_tag_status(clock, mac_address, latest_sighting, dbError) ==
    IF NormalizeFails(mac_address)
    THEN [raised |-> Some([type |-> "TagNotFoundException", mac |-> mac_address])]
    ELSE IF IsNone(get_tag_by_mac(PyStr(NormalizeMac(mac_address))))
    THEN [raised |-> Some([type |-> "TagNotFoundException",
                           mac |-> PyStr(NormalizeMac(mac_address))])]
    ELSE IF ~IsNone(dbError) THEN [raised |-> Some(Raise(Get(dbError)))]
    ELSE Ok(get_tag_status_internal(clock, NormalizeMac(mac_address),
                get_tag_by_mac(PyStr(NormalizeMac(mac_address))), latest_sighting))

\* one entry of get_all_tag_statuses: the status of the tag, or the error marker
tag_status_entry(clock, tag, latest_sighting, dbError) ==
    IF IsNone(dbError)
    THEN get_tag_status_internal(clock, tag.mac, None, latest_sighting)
    ELSE [name |-> tag.name, mac |-> tag.mac, error |-> Get(dbError), status |-> "error"]

\* get_all_tag_statuses returning what it has at the first tag that fails
get_all_tag_statuses_AbortsOnFailure(clock, latest, dbErrors) ==
    LET failing == {i \in 1..Len(get_all_tags) : ~IsNone(dbErrors[i])}
        stop == IF failing = {} THEN Len(get_all_tags) + 1
                ELSE CHOOSE i \in failing : \A j \in failing : i <= j
    IN [i \in 1..(stop - 1) |->
           tag_status_entry(clock, get_all_tags[i], latest[i], dbErrors[i])]

\* get_all_tag_statuses(): latest[i] is the row the query for tag i returned,
\* dbErrors[i] is Some(cause) when that query raises
get_all_tag_statuses(clock, latest, dbErrors) ==
    [i \in 1..Len(get_all_tags) |->
        tag_status_entry(clock, get_all_tags[i], latest[i], dbErrors[i])]

\* the sequences that list every element of the set S once
Orderings(S) ==
    {f \in [1..Cardinality(S) -> S] : \A i, j \in 1..Cardinality(S) : f[i] = f[j] => i = j}

Min2(a, b) == IF a <= b THEN a ELSE b

\* the history query ordering by ts_utc ascending
HistoryFetches_OldestFirst(rows, mac, cutoff_time, limit) ==
    LET matching == {r \in {x \in Range(rows) : x.mac = mac} : r.ts_utc >= cutoff_time}
        sorted == {f \in [1..Cardinality(matching) -> matching] :
                      /\ \A i, j \in 1..Cardinality(matching) : f[i] = f[j] => i = j
                      /\ \A i, j \in 1..Cardinality(matching) :
                            i < j => f[i].ts_utc <= f[j].ts_utc}
    IN {SubSeq(f, 1, IF limit <= Cardinality(matching) THEN limit
                     ELSE Cardinality(matching)) : f \in sorted}

\* query.filter(mac == m, ts_utc >= cutoff).order_by(desc(ts_utc)).limit(limit).all():
\* the results the store may return (it orders equal timestamps as it likes)
HistoryFetches(rows, mac, cutoff_time, limit) ==
    LET matching == {r \in RowsOf(rows, mac) : r.ts_utc >= cutoff_time}
        sorted == {f \in Orderings(matching) :
                      \A i, j \in 1..Cardinality(matching) : i < j => f[i].ts_utc >= f[j].ts_utc}
    IN {SubSeq(f, 1, Min2(limit, Cardinality(matching))) : f \in sorted}

\* utc_now() - timedelta(hours=hours)
CutoffTime(clock, hours) == utc_now(clock) - hours * 3600

MinOf(S) == CHOOSE x \in S : \A y \in S : x <= y
MaxOf(S) == CHOOSE x \in S : \A y \in S : y <= x

RECURSIVE SumOf(_)
\* sum(rssi_values)
SumOf(values) == IF values = <<>> THEN 0 ELSE Head(values) + SumOf(Tail(values))

\* the average cut down to the hundredth below it
RoundedAverage_Floors(total, count) == (100 * total) \div count

\* round(total / count, 2), in hundredths: the nearest hundredth, a tie going
\* to the even one (a tie needs a count that is a multiple of 8; there the
\* float total / count decides)
RoundedAverage(total, count) ==
    LET q == (100 * total) \div count
        rem == 100 * total - q * count
    IN IF 2 * rem < count THEN q
       ELSE IF 2 * rem > count THEN q + 1
       ELSE IF q % 2 = 0 THEN q ELSE q + 1

\* get_tag_history answering for a mac the registry does not hold
get_tag_history_ServesUnregistered(clock, mac_address, hours, limit, fetched, dbError) ==
    IF NormalizeFails(mac_address)
    THEN [raised |-> Some([type |-> "TagNotFoundException", mac |-> mac_address])]
    ELSE IF ~IsNone(dbError) THEN [raised |-> Some(Raise(Get(dbError)))]
    ELSE
      LET found == get_tag_by_mac(PyStr(NormalizeMac(mac_address)))
          tag_info == IF IsNone(found) THEN [name |-> "unknown", type |-> "unknown"]
                      ELSE Get(found)
          rssi_values == {fetched[i].rssi : i \in 1..Len(fetched)}
      IN Ok([tag |-> [name |-> tag_info.name, mac |-> NormalizeMac(mac_address),
                      type |-> tag_info.type],
             time_range_hours |-> hours,
             sighting_count |-> Len(fetched),
             statistics |->
                 [average_rssi |-> IF fetched = <<>> THEN None
                                   ELSE Some(RoundedAverage(
                                            SumOf([i \in 1..Len(fetched) |-> fetched[i].rssi]),
                                            Len(fetched))),
                  min_rssi |-> IF fetched = <<>> THEN None ELSE Some(MinOf(rssi_values)),
                  max_rssi |-> IF fetched = <<>> THEN None ELSE Some(MaxOf(rssi_values)),
                  first_seen |-> IF fetched = <<>> THEN None
                                 ELSE Some(fetched[Len(fetched)].ts_utc),
                  last_seen |-> IF fetched = <<>> THEN None ELSE Some(fetched[1].ts_utc)],
             sightings |-> fetched])

\* get_tag_history(mac_address, hours, limit), fetched being the rows the query
\* returned; dbError is Some(cause) when the query raises
get_tag_history(clock, mac_address, hours, limit, fetched, dbError) ==
    IF NormalizeFails(mac_address)
    THEN [raised |-> Some([type |-> "TagNotFoundException", mac |-> mac_address])]
    ELSE IF IsNone(get_tag_by_mac(PyStr(NormalizeMac(mac_address))))
    THEN [raised |-> Some([type |-> "TagNotFoundException",
                           mac |-> PyStr(NormalizeMac(mac_address))])]
    ELSE IF ~IsNone(dbError) THEN [raised |-> Some(Raise(Get(dbError)))]
    ELSE
      LET tag_info == Get(get_tag_by_mac(PyStr(NormalizeMac(mac_address))))
          rssi_values == {fetched[i].rssi : i \in 1..Len(fetched)}
      IN Ok([tag |-> [name |-> tag_info.name, mac |-> NormalizeMac(mac_address),
                      type |-> tag_info.type],
             time_range_hours |-> hours,
             sighting_count |-> Len(fetched),
             statistics |->
                 [average_rssi |-> IF fetched = <<>> THEN None
                                   ELSE Some(RoundedAverage(
                                            SumOf([i \in 1..Len(fetched) |-> fetched[i].rssi]),
                                            Len(fetched))),
                  min_rssi |-> IF fetched = <<>> THEN None ELSE Some(MinOf(rssi_values)),
                  max_rssi |-> IF fetched = <<>> THEN None ELSE Some(MaxOf(rssi_values)),
                  first_seen |-> IF fetched = <<>> THEN None
                                 ELSE Some(fetched[Len(fetched)].ts_utc),
                  last_seen |-> IF fetched = <<>> THEN None ELSE Some(fetched[1].ts_utc)],
             sightings |-> fetched])

\* the characters of the names and types of the roster
Chars(text) ==
         IF text = "WHEELCHAIR_A" THEN <<"W", "H", "E", "E", "L", "C", "H", "A", "I", "R", "_", "A">>
         ELSE IF text = "WHEELCHAIR_B" THEN <<"W", "H", "E", "E", "L", "C", "H", "A", "I", "R", "_", "B">>
         ELSE IF text = "WHEELCHAIR_C" THEN <<"W", "H", "E", "E", "L", "C", "H", "A", "I", "R", "_", "C">>
         ELSE IF text = "PATIENT_1" THEN <<"P", "A", "T", "I", "E", "N", "T", "_", "1">>
         ELSE IF text = "PATIENT_2" THEN <<"P", "A", "T", "I", "E", "N", "T", "_", "2">>
         ELSE IF text = "PATIENT_3" THEN <<"P", "A", "T", "I", "E", "N", "T", "_", "3">>
         ELSE IF text = "NURSE_1" THEN <<"N", "U", "R", "S", "E", "_", "1">>
         ELSE IF text = "NURSE_2" THEN <<"N", "U", "R", "S", "E", "_", "2">>
         ELSE IF text = "DOCTOR_1" THEN <<"D", "O", "C", "T", "O", "R", "_", "1">>
         ELSE IF text = "IV_PUMP_1" THEN <<"I", "V", "_", "P", "U", "M", "P", "_", "1">>
         ELSE IF text = "DEFIB_1" THEN <<"D", "E", "F", "I", "B", "_", "1">>
         ELSE IF text = "VENTILATOR_1" THEN <<"V", "E", "N", "T", "I", "L", "A", "T", "O", "R", "_", "1">>
         ELSE IF text = "equipment" THEN <<"e", "q", "u", "i", "p", "m", "e", "n", "t">>
         ELSE IF text = "patient" THEN <<"p", "a", "t", "i", "e", "n", "t">>
         ELSE IF text = "staff" THEN <<"s", "t", "a", "f", "f">>
         ELSE <<>>

\* str.lower()
LowerStr(chars) == [i \in 1..Len(chars) |-> Lower(chars[i])]

\* sub in text
Contains(sub, text) ==
    \E i \in 0..(Len(text) - Len(sub)) : SubSeq(text, i + 1, i + Len(sub)) = sub

\* the filters with the type matched as a substring
passes_filters_TypeBySubstring(t, query, tag_type) ==
    /\ (query = PyNone \/ query.v = <<>>)
          \/ Contains(LowerStr(query.v), LowerStr(Chars(t.name)))
          \/ Contains(LowerStr(query.v), LowerStr(t.mac))
    /\ (tag_type = PyNone \/ tag_type.v = <<>>)
          \/ Contains(LowerStr(tag_type.v), LowerStr(Chars(t.type)))

\* the query and type filters of search_tags: a filter that is None or empty
\* is not applied
passes_filters(t, query, tag_type) ==
    /\ (query = PyNone \/ query.v = <<>>)
          \/ Contains(LowerStr(query.v), LowerStr(Chars(t.name)))
          \/ Contains(LowerStr(query.v), LowerStr(t.mac))
    /\ (tag_type = PyNone \/ tag_type.v = <<>>)
          \/ LowerStr(Chars(t.type)) = LowerStr(tag_type.v)

\* the positions in the roster of the tags that pass the filters, in order
filtered_tags(query, tag_type) ==
    SelectSeq([i \in 1..Len(get_all_tags) |-> i],
              LAMBDA i : passes_filters(get_all_tags[i], query, tag_type))

\* filtered_tags[:limit]
SliceTo(seq, limit) ==
    IF limit >= 0 THEN SubSeq(seq, 1, Min2(limit, Len(seq)))
    ELSE SubSeq(seq, 1, IF Len(seq) + limit > 0 THEN Len(seq) + limit ELSE 0)

\* the statuses search_tags keeps of the tags at the given roster positions
kept_statuses(clock, positions, want_present, latest, dbErrors) ==
    LET status(i) == get_tag_status_internal(clock, get_all_tags[i].mac,
                                             Some(get_all_tags[i]), latest[i])
        kept == SelectSeq(positions,
                    LAMBDA i : /\ IsNone(dbErrors[i])
                               /\ IsNone(want_present)
                                    \/ status(i).is_present = Get(want_present))
    IN [k \in 1..Len(kept) |-> status(kept[k])]

\* the loop of search_tags with the presence filter applied before the limit
search_results_LimitsAfterPresence(clock, filtered, want_present, limit, latest, dbErrors) ==
    SliceTo(kept_statuses(clock, filtered, want_present, latest, dbErrors), limit)

\* the loop of search_tags over filtered_tags[:limit]
search_results(clock, filtered, want_present, limit, latest, dbErrors) ==
    kept_statuses(clock, SliceTo(filtered, limit), want_present, latest, dbErrors)

\* search_tags(query, tag_type, is_present, limit): latest[i] is the row the
\* query for the tag at roster position i returns, dbErrors[i] is Some(cause)
\* when that query raises
search_tags(clock, query, tag_type, want_present, limit, latest, dbErrors) ==
    LET filtered == filtered_tags(query, tag_type)
        results == search_results(clock, filtered, want_present, limit, latest, dbErrors)
    IN [total_found |-> Len(filtered), returned |-> Len(results), tags |-> results]

\* the default of search_tags' limit parameter
DefaultSearchLimit == 50

\* the defaults of get_tag_history's hours and limit parameters
DefaultHours == 24
DefaultLimit == 100

\* ------------------------------------------------------------------- inputs

\* the most rows the table holds, and the longest batch
MaxSightings == 2
MaxBatch == 3

Tag1Colon == RosterPrefix \o <<"0", "1">>
Tag1HyphenLower == <<"a", "a", "-", "b", "b", "-", "c", "c", "-", "d", "d", "-", "e", "e", "-", "0", "1">>
Tag1BareLower == <<"a", "a", "b", "b", "c", "c", "d", "d", "e", "e", "0", "1">>
Tag2DotLower == <<"a", "a", "b", "b", ".", "c", "c", "d", "d", ".", "e", "e", "0", "2">>
UnknownMac == <<"F", "F", ":", "F", "F", ":", "F", "F", ":", "F", "F", ":", "F", "F", ":", "F", "F">>
UnknownHyphenLower == <<"f", "f", "-", "f", "f", "-", "f", "f", "-", "f", "f", "-", "f", "f", "-", "f", "f">>
ShortMac == <<"A", "A", ":", "B", "B", ":", "C", "C", ":", "D", "D", ":", "E", "E">>
NonHexMac == <<"G", "G", ":", "B", "B", ":", "C", "C", ":", "D", "D", ":", "E", "E", ":", "0", "1">>

RegisteredMacInputs == {PyStr(Tag1Colon), PyStr(Tag1HyphenLower), PyStr(Tag1BareLower)}
UnregisteredMacInputs == {PyStr(UnknownMac), PyStr(UnknownHyphenLower)}
InvalidMacInputs == {PyStr(ShortMac), PyStr(NonHexMac), PyStr(<<>>), PyNone, PyInt(7)}
MacInputs == RegisteredMacInputs \cup UnregisteredMacInputs \cup InvalidMacInputs

\* the macs the queries are called with
QueryMacInputs == MacInputs \cup {PyStr(Tag2DotLower)}

IntegerRssiInputs == {PyInt(-65), PyInt(0)}
InvalidRssiInputs == {PyNone, PyFloat, PyStr(<<"-", "6", "5">>)}
RssiInputs == IntegerRssiInputs \cup InvalidRssiInputs

PyList == [t |-> "list"]
ValidTimestampInputs == {PyNone, PyInt(T0 - 60)}
InvalidTimestampInputs == {PyList}
TimestampInputs == ValidTimestampInputs \cup InvalidTimestampInputs

ValidGatewayInputs == {PyNone, PyIp(<<192, 168, 1, 10>>)}
InvalidGatewayInputs == {PyIp(<<999, 1, 1, 1>>), PyIp(<<10, 0, 0>>)}
GatewayInputs == ValidGatewayInputs \cup InvalidGatewayInputs

Call(mac, rssi, timestamp, gateway_ip) ==
    [mac |-> mac, rssi |-> rssi, timestamp |-> timestamp, gateway_ip |-> gateway_ip]

BaseCall == Call(PyStr(Tag1Colon), PyInt(-65), PyNone, PyNone)

\* the calls of ingest: every input of each field with the other fields as in
\* BaseCall, every integer rssi with every valid mac, and every combination
\* of valid and invalid fields
IngestCalls ==
    {[BaseCall EXCEPT !.mac = m] : m \in MacInputs}
    \cup {[BaseCall EXCEPT !.rssi = r] : r \in RssiInputs}
    \cup {[BaseCall EXCEPT !.timestamp = t] : t \in TimestampInputs}
    \cup {[BaseCall EXCEPT !.gateway_ip = g] : g \in GatewayInputs}
    \cup {Call(m, r, PyNone, PyNone) :
            m \in {PyStr(Tag1HyphenLower), PyStr(UnknownHyphenLower)}, r \in IntegerRssiInputs}
    \cup {Call(m, r, t, g) : m \in {PyStr(Tag1Colon), PyStr(ShortMac)},
                             r \in {PyInt(-65), PyNone},
                             t \in {PyNone, PyList},
                             g \in {PyNone, PyIp(<<999, 1, 1, 1>>)}}

\* what the store may raise
DbErrors == {None, Some("OperationalError")}

GoodKnown == Packet(Some(PyStr(Tag1Colon)), Some(PyInt(-65)), None, None)
GoodUnknown == Packet(Some(PyStr(UnknownMac)), Some(PyInt(-65)), None, None)
BadMac == Packet(Some(PyStr(NonHexMac)), Some(PyInt(-65)), None, None)
NoMac == Packet(None, Some(PyInt(-65)), None, None)
NoRssi == Packet(Some(PyStr(Tag1HyphenLower)), None, None, None)

RECURSIVE SeqsUpTo(_, _)
\* the sequences over S of length at most n
SeqsUpTo(S, n) ==
    IF n = 0 THEN {<<>>}
    ELSE SeqsUpTo(S, n - 1) \cup {Append(q, x) : q \in {p \in SeqsUpTo(S, n - 1) : Len(p) = n - 1}, x \in S}

\* for a batch of n packets: the store raises on no insert, or on the insert
\* of one packet
ErrorPatterns(n) ==
    {[i \in 1..n |-> None]}
    \cup {[i \in 1..n |-> IF i = k THEN Some("OperationalError") ELSE None] : k \in 1..n}

\* the batches of the general specification
Batches == SeqsUpTo({GoodUnknown, PyNotADict}, MaxBatch)

RECURSIVE SeqChoices(_)
\* the sequences that take their i-th element from sets[i]
SeqChoices(sets) ==
    IF sets = <<>> THEN {<<>>}
    ELSE {<<x>> \o q : x \in Head(sets), q \in SeqChoices(Tail(sets))}

\* for get_all_tag_statuses: no query raises, or the query of one tag raises
StatusErrorPatterns == ErrorPatterns(Len(TAGS))

\* ------------------------------------------------------------------ actions

\* the callers that call the ingest service at the same time, each through
\* a service of its own
Callers == {"c1", "c2"}

\* a caller that is in no call
NoCall == [op |-> "none"]

Idle == [op |-> "none"]

Init ==
    /\ sightings = <<>>
    /\ nextId = 1
    /\ now = 1
    /\ result = Idle
    /\ registry = TAGS
    /\ calls = [c \in Callers |-> NoCall]

\* a caller calls ingest_packet
IngestPacket(call, dbError) ==
    /\ result = Idle
    /\ \E out \in {ingest_packet(Db(sightings, nextId), now, call.mac, call.rssi,
                                   call.timestamp, call.gateway_ip, dbError)} :
          /\ Len(out.db.sightings) <= MaxSightings
          /\ sightings' = out.db.sightings
          /\ nextId' = out.db.nextId
          /\ result' = [op |-> "ingest", args |-> call, dbError |-> dbError,
                        before |-> sightings, raised |-> out.raised,
                        value |-> IF IsNone(out.raised) THEN Some(out.value) ELSE None,
                        inserts |-> out.inserts]
    /\ UNCHANGED <<now, registry, calls>>

\* a caller calls batch_ingest
BatchIngest(packets, dbErrors) ==
    /\ result = Idle
    /\ \E out \in {batch_ingest(Db(sightings, nextId), now, packets, dbErrors)} :
          /\ Len(out.db.sightings) <= MaxSightings
          /\ sightings' = out.db.sightings
          /\ nextId' = out.db.nextId
          /\ result' = [op |-> "batch", packets |-> packets, dbErrors |-> dbErrors,
                        before |-> sightings, beforeId |-> nextId, raised |-> out.raised,
                        value |-> IF IsNone(out.raised) THEN Some(out.value) ELSE None]
    /\ UNCHANGED <<now, registry, calls>>

\* a caller calls get_tag_status
GetTagStatus(mac, dbError) ==
    /\ result = Idle
    /\ \E latest \in FirstByTsDesc(sightings, IF NormalizeFails(mac) THEN <<>> ELSE NormalizeMac(mac)) :
         LET out == get_tag_status(now, mac, latest, dbError)
         IN result' = [op |-> "status", mac |-> mac, dbError |-> dbError, raised |-> out.raised,
                       value |-> IF IsNone(out.raised) THEN Some(out.value) ELSE None]
    /\ UNCHANGED <<sightings, nextId, now, registry, calls>>

\* a caller calls get_all_tag_statuses
GetAllTagStatuses(dbErrors) ==
    /\ result = Idle
    /\ \E latest \in SeqChoices([i \in 1..Len(TAGS) |-> FirstByTsDesc(sightings, TAGS[i].mac)]) :
         result' = [op |-> "all_statuses", dbErrors |-> dbErrors,
                    value |-> get_all_tag_statuses(now, latest, dbErrors)]
    /\ UNCHANGED <<sightings, nextId, now, registry, calls>>

\* a caller calls get_tag_history
GetTagHistory(mac, hours, limit, dbError) ==
    /\ result = Idle
    /\ \E fetched \in HistoryFetches(sightings,
                        IF NormalizeFails(mac) THEN <<>> ELSE NormalizeMac(mac),
                        CutoffTime(now, hours), limit) :
         LET out == get_tag_history(now, mac, hours, limit, fetched, dbError)
         IN result' = [op |-> "history", mac |-> mac, hours |-> hours, limit |-> limit,
                       dbError |-> dbError, raised |-> out.raised,
                       value |-> IF IsNone(out.raised) THEN Some(out.value) ELSE None]
    /\ UNCHANGED <<sightings, nextId, now, registry, calls>>

\* a caller calls search_tags
SearchTags(query, tag_type, want_present, limit, dbErrors) ==
    /\ result = Idle
    /\ \E latest \in SeqChoices([i \in 1..Len(TAGS) |-> FirstByTsDesc(sightings, TAGS[i].mac)]) :
         result' = [op |-> "search", query |-> query, tag_type |-> tag_type,
                    want_present |-> want_present, limit |-> limit, dbErrors |-> dbErrors,
                    value |-> search_tags(now, query, tag_type, want_present, limit,
                                          latest, dbErrors)]
    /\ UNCHANGED <<sightings, nextId, now, registry, calls>>

\* a caller calls normalize_mac, and calls it again on what it returned
Normalize(mac) ==
    /\ result = Idle
    /\ \E out \in {normalize_mac(mac)} :
         result' = [op |-> "normalize", mac |-> mac, raised |-> out.raised,
                    value |-> IF IsNone(out.raised) THEN Some(out.value) ELSE None,
                    again |-> IF IsNone(out.raised) THEN Some(normalize_mac(PyStr(out.value)))
                              ELSE None]
    /\ UNCHANGED <<sightings, nextId, now, registry, calls>>

\* a caller calls get_tag_by_mac
Lookup(mac) ==
    /\ result = Idle
    /\ result' = [op |-> "lookup", mac |-> mac, value |-> get_tag_by_mac_in(registry, mac),
                  mutated |-> FALSE]
    /\ UNCHANGED <<sightings, nextId, now, registry, calls>>

\* a caller calls get_all_tags
GetAllTags ==
    /\ result = Idle
    /\ result' = [op |-> "all_tags", value |-> get_all_tags_in(registry), mutated |-> FALSE]
    /\ UNCHANGED <<sightings, nextId, now, registry, calls>>

\* the caller writes a name into the dict that get_tag_by_mac returned, or
\* that the result of ingest_packet carries as tag_info: it is the dict of
\* the roster
MutateReturnedTag(name) ==
    /\ \/ result.op = "lookup" /\ ~IsNone(result.value)
       \/ /\ result.op = "ingest"
          /\ ~IsNone(result.value)
          /\ ~IsNone(Get(result.value).tag_info)
    /\ LET key == IF result.op = "lookup" THEN NormalizeMac(result.mac)
                  ELSE Get(result.value).mac
           changed == [registry[RosterPosition(key)] EXCEPT !.name = name]
       IN /\ registry' = [registry EXCEPT ![RosterPosition(key)] = changed]
          /\ result' = IF result.op = "lookup"
                       THEN [result EXCEPT !.value = Some(changed), !.mutated = TRUE]
                       ELSE [result EXCEPT !.value = Some([Get(result.value) EXCEPT
                                                            !.tag_info = Some(changed)])]
    /\ UNCHANGED <<sightings, nextId, now, calls>>

\* the caller removes the first element of the list that get_all_tags
\* returned: the list is the caller's own
MutateReturnedRoster ==
    /\ result.op = "all_tags"
    /\ result.value # <<>>
    /\ result' = [result EXCEPT !.value = Tail(result.value), !.mutated = TRUE]
    /\ UNCHANGED <<sightings, nextId, now, registry, calls>>

\* the caller writes a name into the first dict of the list that
\* get_all_tags returned: the dict is the dict of the roster
MutateReturnedRosterEntry(name) ==
    /\ result.op = "all_tags"
    /\ ~result.mutated
    /\ result.value # <<>>
    /\ LET changed == [result.value[1] EXCEPT !.name = name]
       IN /\ registry' = [registry EXCEPT ![1] = changed]
          /\ result' = [result EXCEPT !.value = <<changed>> \o Tail(result.value),
                                      !.mutated = TRUE]
    /\ UNCHANGED <<sightings, nextId, now, calls>>

\* caller c enters ingest_packet
StartIngest(c, call) ==
    /\ calls[c] = NoCall
    /\ calls' = [calls EXCEPT ![c] = [op |-> "ingest", state |-> "running", args |-> call]]
    /\ UNCHANGED <<sightings, nextId, now, result, registry>>

\* caller c's ingest_packet runs: validation, lookup, the insert, the result
RunIngest(c, dbError) ==
    /\ calls[c].op = "ingest"
    /\ calls[c].state = "running"
    /\ \E out \in {ingest_packet(Db(sightings, nextId), now, calls[c].args.mac,
                                   calls[c].args.rssi, calls[c].args.timestamp,
                                   calls[c].args.gateway_ip, dbError)} :
          /\ Len(out.db.sightings) <= MaxSightings
          /\ sightings' = out.db.sightings
          /\ nextId' = out.db.nextId
          /\ calls' = [calls EXCEPT ![c] =
                          [op |-> "ingest", state |-> "returned", args |-> calls[c].args,
                           raised |-> out.raised,
                           value |-> IF IsNone(out.raised) THEN Some(out.value) ELSE None]]
    /\ UNCHANGED <<now, result, registry>>

\* caller c enters batch_ingest
StartBatch(c, packets) ==
    /\ calls[c] = NoCall
    /\ calls' = [calls EXCEPT ![c] =
                    [op |-> "batch", state |-> "running", packets |-> packets, pos |-> 0,
                     results |-> [total |-> Len(packets), successful |-> 0, failed |-> 0,
                                  errors |-> <<>>, results |-> <<>>]]]
    /\ UNCHANGED <<sightings, nextId, now, result, registry>>

\* caller c's batch_ingest runs the body of its loop for the next packet
RunBatchStep(c, dbError) ==
    /\ calls[c].op = "batch"
    /\ calls[c].state = "running"
    /\ calls[c].pos < Len(calls[c].packets)
    /\ \E next \in {batch_step([raised |-> None, db |-> Db(sightings, nextId),
                                 results |-> calls[c].results],
                                now, calls[c].pos, calls[c].packets[calls[c].pos + 1],
                                dbError)} :
          /\ Len(next.db.sightings) <= MaxSightings
          /\ sightings' = next.db.sightings
          /\ nextId' = next.db.nextId
          /\ calls' = [calls EXCEPT ![c].pos = @ + 1,
                                    ![c].results = next.results,
                                    ![c].state = IF IsNone(next.raised) THEN "running"
                                                 ELSE "raised"]
    /\ UNCHANGED <<now, result, registry>>

\* caller c's batch_ingest leaves its loop and returns the results
ReturnBatch(c) ==
    /\ calls[c].op = "batch"
    /\ calls[c].state = "running"
    /\ calls[c].pos = Len(calls[c].packets)
    /\ calls' = [calls EXCEPT ![c].state = "returned"]
    /\ UNCHANGED <<sightings, nextId, now, result, registry>>

\* caller c is done with what its call returned or raised
EndCall(c) ==
    /\ calls[c].op # "none"
    /\ calls[c].state \in {"returned", "raised"}
    /\ calls' = [calls EXCEPT ![c] = NoCall]
    /\ UNCHANGED <<sightings, nextId, now, result, registry>>

\* the call returns to its caller: the services keep nothing between calls
Return ==
    /\ result # Idle
    /\ result' = Idle
    /\ UNCHANGED <<sightings, nextId, now, registry, calls>>

\* time passes between calls
Tick ==
    /\ result = Idle
    /\ now < Len(ClockReadings)
    /\ now' = now + 1
    /\ UNCHANGED <<sightings, nextId, result, registry, calls>>

Next ==
    \/ \E call \in IngestCalls, dbError \in DbErrors : IngestPacket(call, dbError)
    \/ \E packets \in Batches : \E dbErrors \in ErrorPatterns(Len(packets)) :
          BatchIngest(packets, dbErrors)
    \/ \E mac \in QueryMacInputs, dbError \in DbErrors : GetTagStatus(mac, dbError)
    \/ \E dbErrors \in StatusErrorPatterns : GetAllTagStatuses(dbErrors)
    \/ \E mac \in QueryMacInputs, dbError \in DbErrors :
          GetTagHistory(mac, DefaultHours, DefaultLimit, dbError)
    \/ Return
    \/ Tick

Spec == Init /\ [][Next]_vars

\* --------------------------------------------------------------- properties

\* what the inputs are expected to normalize to
ExpectedMac(mac) ==
    IF mac \in RegisteredMacInputs THEN Tag1Colon
    ELSE IF mac = PyStr(Tag2DotLower) THEN RosterPrefix \o <<"0", "2">>
    ELSE UnknownMac

\* the error of the first field, in the order mac, rssi, timestamp,
\* gateway_ip, that is invalid
ExpectedValidationError(args) ==
    IF args.mac \in InvalidMacInputs THEN "InvalidMACException"
    ELSE IF args.rssi \in InvalidRssiInputs THEN "InvalidRSSIException"
    ELSE IF args.timestamp \in InvalidTimestampInputs THEN "InvalidTimestamp"
    ELSE "InvalidGatewayIp"

HasInvalidField(args) ==
    \/ args.mac \in InvalidMacInputs
    \/ args.rssi \in InvalidRssiInputs
    \/ args.timestamp \in InvalidTimestampInputs
    \/ args.gateway_ip \in InvalidGatewayInputs

\* C1: an ingest call in which a field fails validation ends with the error
\* of that field (of the first such field, in the order the fields are
\* validated) and leaves the rows of the store exactly as they were.
C1_ValidationFailureWritesNothing ==
    (result.op = "ingest" /\ HasInvalidField(result.args)) =>
        /\ ~IsNone(result.raised)
        /\ Get(result.raised).type = ExpectedValidationError(result.args)
        /\ IsNone(result.value)
        /\ sightings = result.before
        /\ result.inserts = 0

\* an ingest with an invalid gateway address only, into a store that holds rows
C1_Witness ==
    /\ result.op = "ingest"
    /\ result.args.gateway_ip \in InvalidGatewayInputs
    /\ result.args.mac \in RegisteredMacInputs
    /\ result.args.rssi \in IntegerRssiInputs
    /\ result.args.timestamp \in ValidTimestampInputs
    /\ IsNone(result.dbError)
    /\ Get(result.raised).type = "InvalidGatewayIp"
    /\ Len(result.before) > 0

\* the call's fields are all valid and the store accepts the insert
ValidCallStored ==
    /\ result.op = "ingest"
    /\ ~HasInvalidField(result.args)
    /\ IsNone(result.dbError)

\* the row an ingest call is expected to add
ExpectedRow(args, id, tag_name) ==
    [id |-> id, mac |-> ExpectedMac(args.mac), rssi |-> args.rssi.v,
     ts_utc |-> IF args.timestamp = PyNone THEN ClockReadings[now] ELSE args.timestamp.v,
     tag_name |-> tag_name,
     gateway_ip |-> IF args.gateway_ip = PyNone THEN None ELSE Some(args.gateway_ip.parts)]

\* C2: an ingest of a valid mac that is not in the registry, with an integer
\* rssi (the other fields valid, the store accepting the insert), succeeds
\* with known_tag false and no tag_name or tag_info, and adds exactly one row,
\* which holds the normalized mac and no tag_name.
C2_UnknownMacIsIngested ==
    (ValidCallStored /\ result.args.mac \in UnregisteredMacInputs) =>
        /\ IsNone(result.raised)
        /\ Get(result.value).status = "ok"
        /\ Get(result.value).known_tag = FALSE
        /\ IsNone(Get(result.value).tag_name)
        /\ IsNone(Get(result.value).tag_info)
        /\ Get(result.value).mac = UnknownMac
        /\ sightings = Append(result.before,
                              ExpectedRow(result.args, Get(result.value).sighting_id, None))
        /\ \A r \in Range(result.before) : r.id # Get(result.value).sighting_id

\* an unregistered mac written in lower case with hyphens, rssi 0
C2_Witness ==
    /\ ValidCallStored
    /\ result.args.mac = PyStr(UnknownHyphenLower)
    /\ result.args.rssi = PyInt(0)
    /\ IsNone(result.raised)
    /\ Len(sightings) = Len(result.before) + 1

C6_StorageFailure ==
    (result.op = "ingest" /\ ~HasInvalidField(result.args) /\ ~IsNone(result.dbError)) =>
        /\ ~IsNone(result.raised)
        /\ Get(result.raised).type = "DatabaseException"
        /\ Get(result.raised).mac = ExpectedMac(result.args.mac)
        /\ Get(result.raised).error = Get(result.dbError)
        /\ result.inserts = 1
        /\ IsNone(result.value)
        /\ sightings = result.before

\* a failed insert into a store that holds rows
C6_Witness ==
    /\ result.op = "ingest"
    /\ ~HasInvalidField(result.args)
    /\ ~IsNone(result.dbError)
    /\ Get(result.raised).type = "DatabaseException"
    /\ Len(result.before) > 0

\* ------------------------------------------------------ batches of all kinds

\* batches over well-formed packets, packets with an invalid or a missing
\* mac, and a packet that is not a dict
RichBatches == SeqsUpTo({GoodKnown, GoodUnknown, BadMac, NoMac, PyNotADict}, MaxBatch)

NextBatch ==
    \/ \E packets \in RichBatches : \E dbErrors \in ErrorPatterns(Len(packets)) :
          BatchIngest(packets, dbErrors)
    \/ Return

SpecBatch == Init /\ [][NextBatch]_vars

\* the call a single ingest of the packet makes
PacketCall(packet) ==
    Call(DictGet(packet.mac), DictGet(packet.rssi), DictGet(packet.timestamp),
         DictGet(packet.gateway_ip))

\* the packet fails validation, or its insert fails
PacketFails(packet, dbError) ==
    /\ packet.t = "dict"
    /\ HasInvalidField(PacketCall(packet)) \/ ~IsNone(dbError)

RECURSIVE SingleIngests(_, _, _, _)
\* the rows the store holds after one single ingest per packet, from the
\* packet at position i on (a packet that cannot be ingested adds no row)
SingleIngests(db, packets, dbErrors, i) ==
    IF i > Len(packets) THEN db.sightings
    ELSE IF packets[i].t # "dict" THEN SingleIngests(db, packets, dbErrors, i + 1)
    ELSE With(ingest_packet(db, now, DictGet(packets[i].mac), DictGet(packets[i].rssi),
                            DictGet(packets[i].timestamp), DictGet(packets[i].gateway_ip),
                            dbErrors[i]),
              LAMBDA out : SingleIngests(out.db, packets, dbErrors, i + 1))

\* C4: in a batch, a packet that fails (validation or storage) at zero-based
\* position i leaves a failure record with index i, the packet's mac (or
\* "unknown") and the error; the packets after it are ingested as single
\* ingests would ingest them and the rows of the packets before it stay.
C4_BatchPacketsAreIndependent ==
    (result.op = "batch") =>
        \A i \in 1..Len(result.packets) :
            PacketFails(result.packets[i], result.dbErrors[i]) =>
                /\ IsNone(result.raised)
                /\ \E k \in 1..Len(Get(result.value).errors) :
                      /\ Get(result.value).errors[k].index = i - 1
                      /\ Get(result.value).errors[k].mac =
                            DictGetOrUnknown(result.packets[i].mac)
                      /\ Get(result.value).errors[k].error.type =
                            IF HasInvalidField(PacketCall(result.packets[i]))
                            THEN ExpectedValidationError(PacketCall(result.packets[i]))
                            ELSE "DatabaseException"
                /\ sightings = SingleIngests(Db(result.before, result.beforeId),
                                             result.packets, result.dbErrors, 1)

\* C5: a batch call returns a result for every sequence of packets, whatever
\* the packets are; it never raises.
C5_BatchNeverFails ==
    (result.op = "batch") => (IsNone(result.raised) /\ ~IsNone(result.value))

\* ---------------------------------------------------------------- presence

\* timestamps at the timeout, one second beyond it, one minute beyond it, and
\* one second after the first clock reading
PresenceTimestamps ==
    {PyNone,
     PyInt(T0 - 60 * TAG_TIMEOUT_MINUTES),
     PyInt(T0 - 60 * TAG_TIMEOUT_MINUTES - 1),
     PyInt(T0 - 60 * (TAG_TIMEOUT_MINUTES + 1)),
     PyInt(T0 + 1)}

PresenceCalls ==
    {Call(m, PyInt(-65), t, PyNone) :
        m \in {PyStr(Tag1Colon), PyStr(Tag2DotLower)}, t \in PresenceTimestamps}

\* registered macs: two that are ingested and one that never is
PresenceMacs ==
    {PyStr(Tag1HyphenLower), PyStr(Tag2DotLower), PyStr(RosterPrefix \o <<"0", "3">>)}

NextPresence ==
    \/ \E call \in PresenceCalls : IngestPacket(call, None)
    \/ \E mac \in PresenceMacs, dbError \in DbErrors : GetTagStatus(mac, dbError)
    \/ Return
    \/ Tick

SpecPresence == Init /\ [][NextPresence]_vars

\* the rows of the mac that hold its greatest ts_utc
LatestRows(mac) ==
    {r \in RowsOf(sightings, mac) : \A y \in RowsOf(sightings, mac) : y.ts_utc <= r.ts_utc}

\* C7: the status of a registered mac reports is_present exactly when the
\* mac has a sighting and the time from the greatest ts_utc of its sightings
\* to now is at most the timeout; with no sighting it reports false.
C7_PresenceWithinTimeout ==
    (result.op = "status" /\ IsNone(result.raised)) =>
        Get(result.value).is_present =
            (\E r \in LatestRows(Get(result.value).mac) :
                ClockReadings[now] - r.ts_utc <= 60 * TAG_TIMEOUT_MINUTES)

\* a mac with two sightings, the later one exactly the timeout before now
C7_Witness ==
    /\ result.op = "status"
    /\ IsNone(result.raised)
    /\ Get(result.value).is_present
    /\ Cardinality({r.ts_utc : r \in RowsOf(sightings, Get(result.value).mac)}) = 2
    /\ \E r \in LatestRows(Get(result.value).mac) :
          ClockReadings[now] - r.ts_utc = 60 * TAG_TIMEOUT_MINUTES

\* the signal classification of an rssi
Classification(r) ==
    IF r >= -50 THEN "excellent"
    ELSE IF r >= -65 THEN "good"
    ELSE IF r >= -80 THEN "fair"
    ELSE "poor"

\* C8: a status whose mac has a sighting carries the classification of the
\* latest sighting's rssi, for every integer rssi; a status whose mac has no
\* sighting carries none.
C8_SignalClassification ==
    (result.op = "status" /\ IsNone(result.raised)) =>
        IF RowsOf(sightings, Get(result.value).mac) = {}
        THEN IsNone(Get(result.value).signal_strength)
        ELSE \E r \in LatestRows(Get(result.value).mac) :
                Get(result.value).signal_strength = Some(Classification(r.rssi))

C10_OneEntryPerTag ==
    (result.op = "all_statuses") =>
        /\ Len(result.value) = Len(TAGS)
        /\ \A i \in 1..Len(TAGS) :
              IF IsNone(result.dbErrors[i])
              THEN /\ result.value[i].name = TAGS[i].name
                   /\ result.value[i].mac = TAGS[i].mac
                   /\ "error" \notin DOMAIN result.value[i]
                   /\ \E latest \in FirstByTsDesc(sightings, TAGS[i].mac) :
                         result.value[i] =
                             get_tag_status_internal(now, TAGS[i].mac, Some(TAGS[i]), latest)
              ELSE result.value[i] = [name |-> TAGS[i].name, mac |-> TAGS[i].mac,
                                      error |-> Get(result.dbErrors[i]),
                                      status |-> "error"]

\* the status computation of the second tag fails; the first tag is present
C10_Witness ==
    /\ result.op = "all_statuses"
    /\ ~IsNone(result.dbErrors[2])
    /\ Len(result.value) = Len(TAGS)
    /\ result.value[1].is_present
    /\ result.value[2].status = "error"

\* ----------------------------------------------------------------- history

\* a row as an ingest of a registered mac writes it
StoredRow(id, rssi, ts_utc) ==
    [id |-> id, mac |-> Tag1Colon, rssi |-> rssi, ts_utc |-> ts_utc,
     tag_name |-> Some("WHEELCHAIR_A"), gateway_ip |-> None]

\* the store after six ingests for one tag: five sightings in the last 24
\* hours (three of them in the last hour) and one older than 24 hours,
\* written in an order that is not the order of their timestamps
ExampleStore ==
    <<StoredRow(1, -60, T0 - 120),
      StoredRow(2, -70, T0 - 7200),
      StoredRow(3, -50, T0 - 60),
      StoredRow(4, -90, T0 - 3601),
      StoredRow(5, -65, T0 - 3600),
      StoredRow(6, -40, T0 - 86401)>>

HistoryTimestamps == {PyNone, PyInt(T0 - 3600), PyInt(T0 - 3601), PyInt(T0 - 86401)}

HistoryCalls ==
    {Call(PyStr(Tag1Colon), r, t, PyNone) : r \in {PyInt(-60), PyInt(-71)},
                                             t \in HistoryTimestamps}
    \cup {Call(PyStr(Tag2DotLower), PyInt(-60), PyNone, PyNone)}

HistoryMacs == {PyStr(Tag1HyphenLower), PyStr(Tag2DotLower)}
HistoryHours == {1, DefaultHours}
HistoryLimits == {0, 1, 2, DefaultLimit}

InitHistory ==
    /\ sightings \in {<<>>, ExampleStore}
    /\ nextId = Len(sightings) + 1
    /\ now = 1
    /\ result = Idle
    /\ registry = TAGS
    /\ calls = [c \in Callers |-> NoCall]

NextHistory ==
    \/ \E call \in HistoryCalls : IngestPacket(call, None)
    \/ \E mac \in HistoryMacs, hours \in HistoryHours, limit \in HistoryLimits,
          dbError \in DbErrors : GetTagHistory(mac, hours, limit, dbError)
    \/ Return
    \/ Tick

SpecHistory == InitHistory /\ [][NextHistory]_vars

\* the rows of the mac of a history result that lie in the result's window
WindowRows ==
    {r \in Range(sightings) :
        /\ r.mac = ExpectedMac(result.mac)
        /\ r.ts_utc >= ClockReadings[now] - 3600 * result.hours}

\* the rows a history result returns
Page == Get(result.value).sightings

HistoryReturned == result.op = "history" /\ IsNone(result.raised)

\* C11: the history of a registered mac returns only rows of that mac with
\* ts_utc >= now - hours, newest first, each row once, at most limit of them
\* and as many as the window allows; no row of the window that is left out is
\* newer than a returned one; sighting_count is the number of rows returned.
C11_HistoryWindowAndLimit ==
    HistoryReturned =>
        /\ Get(result.value).tag.mac = ExpectedMac(result.mac)
        /\ \A i \in 1..Len(Page) : Page[i] \in WindowRows
        /\ \A i, j \in 1..Len(Page) :
              i < j => (Page[i].ts_utc >= Page[j].ts_utc /\ Page[i] # Page[j])
        /\ Len(Page) <= result.limit
        /\ Len(Page) = Min2(result.limit, Cardinality(WindowRows))
        /\ \A r \in WindowRows \ Range(Page) : \A x \in Range(Page) : r.ts_utc <= x.ts_utc
        /\ Get(result.value).sighting_count = Len(Page)

\* a page of two rows cut by the limit out of a window of three, the store
\* holding rows of the mac that are older than the window
C11_Witness ==
    /\ HistoryReturned
    /\ result.limit = 2
    /\ Len(Page) = 2
    /\ Cardinality(WindowRows) = 3
    /\ \E r \in Range(sightings) : r.mac = ExpectedMac(result.mac) /\ r \notin WindowRows

RECURSIVE SetSum(_)
SetSum(S) == IF S = {} THEN 0 ELSE LET x == CHOOSE y \in S : TRUE IN x.rssi + SetSum(S \ {x})

Abs(n) == IF n < 0 THEN -n ELSE n

\* C12: the statistics of a history result are those of the returned rows:
\* the average rssi to the nearest hundredth, the least and the greatest
\* rssi, first_seen the ts_utc of the oldest returned row and last_seen that
\* of the newest; all five are absent when no row is returned. The rssi
\* values -60, -70, -50, -90, -65 give average -67.00, min -90, max -50.
C12_StatisticsOverPage ==
    HistoryReturned =>
        LET stats == Get(result.value).statistics
            rows == Range(Page)
        IN IF Page = <<>>
           THEN /\ IsNone(stats.average_rssi)
                /\ IsNone(stats.min_rssi)
                /\ IsNone(stats.max_rssi)
                /\ IsNone(stats.first_seen)
                /\ IsNone(stats.last_seen)
           ELSE /\ 2 * Abs(100 * SetSum(rows) - Get(stats.average_rssi) * Len(Page))
                      <= Len(Page)
                /\ \E r \in rows : r.rssi = Get(stats.min_rssi)
                /\ \A r \in rows : r.rssi >= Get(stats.min_rssi)
                /\ \E r \in rows : r.rssi = Get(stats.max_rssi)
                /\ \A r \in rows : r.rssi <= Get(stats.max_rssi)
                /\ \E r \in rows : r.ts_utc = Get(stats.first_seen)
                /\ \A r \in rows : r.ts_utc >= Get(stats.first_seen)
                /\ \E r \in rows : r.ts_utc = Get(stats.last_seen)
                /\ \A r \in rows : r.ts_utc <= Get(stats.last_seen)
                /\ ({r.rssi : r \in rows} = {-60, -70, -50, -90, -65} /\ Len(Page) = 5) =>
                      /\ Get(stats.average_rssi) = -6700
                      /\ Get(stats.min_rssi) = -90
                      /\ Get(stats.max_rssi) = -50
                      /\ Get(result.value).sighting_count = 5

\* a page of three rows out of a window of three whose average is not a whole
\* number of hundredths
C12_Witness ==
    /\ HistoryReturned
    /\ Len(Page) = 3
    /\ (100 * SetSum(Range(Page))) % 3 # 0
    /\ ~IsNone(Get(result.value).statistics.average_rssi)

\* ------------------------------------------------------------------ search

Nurse1Mac == RosterPrefix \o <<"0", "7">>
Nurse2Mac == RosterPrefix \o <<"0", "8">>

\* sightings of two staff tags, taken now or longer ago
\* than the timeout
SearchCalls ==
    {Call(PyStr(m), PyInt(-65), t, PyNone) :
        m \in {Nurse1Mac, Nurse2Mac},
        t \in {PyNone, PyInt(T0 - 60 * (TAG_TIMEOUT_MINUTES + 1))}}

QueryNurseUpper == PyStr(<<"N", "U", "R", "S", "E">>)
QueryNurseMixed == PyStr(<<"N", "u", "r", "s", "e">>)
QueryNurseLower == PyStr(<<"n", "u", "r", "s", "e">>)
QueryMacLower == PyStr(<<"e", "e", ":", "0", "a">>)
QueryMacUpper == PyStr(<<"E", "E", ":", "0", "A">>)
QuerySuffix == PyStr(<<"_", "1">>)
QueryNoMatch == PyStr(<<"z", "z", "z">>)
EmptyStr == PyStr(<<>>)

SearchQueries ==
    {PyNone, EmptyStr, QueryNurseUpper, QueryNurseMixed, QueryNurseLower,
     QueryMacLower, QueryMacUpper, QuerySuffix, QueryNoMatch}

TypeStaffLower == PyStr(<<"s", "t", "a", "f", "f">>)
TypeStaffUpper == PyStr(<<"S", "T", "A", "F", "F">>)
TypeStaffMixed == PyStr(<<"S", "t", "a", "f", "f">>)
TypeStaffPrefix == PyStr(<<"s", "t", "a">>)
TypeEquipment == PyStr(<<"e", "q", "u", "i", "p", "m", "e", "n", "t">>)

SearchTypes ==
    {PyNone, EmptyStr, TypeStaffLower, TypeStaffUpper, TypeStaffMixed,
     TypeStaffPrefix, TypeEquipment}

\* no status query raises, or the query of the tag at position k raises
SearchErrorPatterns ==
    {[i \in 1..Len(TAGS) |-> None]}
    \cup {[i \in 1..Len(TAGS) |-> IF i = k THEN Some("OperationalError") ELSE None] :
            k \in {1, 7, 8}}

\* the searches: every query with every type, and the limits and presence
\* filters with the queries of some tags failing
Searches ==
    {[query |-> q, tag_type |-> t, want_present |-> None, limit |-> DefaultSearchLimit,
      dbErrors |-> [i \in 1..Len(TAGS) |-> None]] : q \in SearchQueries, t \in SearchTypes}
    \cup {[query |-> f[1], tag_type |-> f[2], want_present |-> w, limit |-> l,
           dbErrors |-> e] :
            f \in {<<PyNone, PyNone>>, <<QueryNurseLower, PyNone>>, <<PyNone, TypeStaffUpper>>},
            w \in {None, Some(TRUE), Some(FALSE)},
            l \in {0, 1, 2, DefaultSearchLimit},
            e \in SearchErrorPatterns}

NextSearch ==
    \/ \E call \in SearchCalls : IngestPacket(call, None)
    \/ \E search \in Searches :
          SearchTags(search.query, search.tag_type, search.want_present, search.limit,
                     search.dbErrors)
    \/ Return
    \/ Tick

SpecSearch == Init /\ [][NextSearch]_vars

AllNames == {TAGS[i].name : i \in 1..Len(TAGS)}

\* the names of the tags whose name or mac contains the query, whatever the
\* case of the letters
NamesMatching(query) ==
    IF query \in {PyNone, EmptyStr} THEN AllNames
    ELSE IF query \in {QueryNurseUpper, QueryNurseMixed, QueryNurseLower}
    THEN {"NURSE_1", "NURSE_2"}
    ELSE IF query \in {QueryMacLower, QueryMacUpper} THEN {"IV_PUMP_1"}
    ELSE IF query = QuerySuffix
    THEN {"PATIENT_1", "NURSE_1", "DOCTOR_1", "IV_PUMP_1", "DEFIB_1", "VENTILATOR_1"}
    ELSE {}

\* the names of the tags whose type is the given type, whatever the case of
\* the letters
NamesOfType(tag_type) ==
    IF tag_type \in {PyNone, EmptyStr} THEN AllNames
    ELSE IF tag_type \in {TypeStaffLower, TypeStaffUpper, TypeStaffMixed}
    THEN {"NURSE_1", "NURSE_2", "DOCTOR_1"}
    ELSE IF tag_type = TypeEquipment
    THEN {"WHEELCHAIR_A", "WHEELCHAIR_B", "WHEELCHAIR_C", "IV_PUMP_1", "DEFIB_1",
          "VENTILATOR_1"}
    ELSE {}

\* the roster positions of the tags a search keeps after its filters
ExpectedFiltered ==
    SelectSeq([i \in 1..Len(TAGS) |-> i],
              LAMBDA i : TAGS[i].name \in NamesMatching(result.query)
                                            \cap NamesOfType(result.tag_type))

\* the tag has a sighting and its latest one is within the timeout
PresentNow(mac) ==
    \E r \in LatestRows(mac) : ClockReadings[now] - r.ts_utc <= 60 * TAG_TIMEOUT_MINUTES

\* the positions, among the first limit of the filtered ones, whose status
\* was computed and passes the presence filter
ExpectedKept ==
    SelectSeq(SubSeq(ExpectedFiltered, 1, Min2(result.limit, Len(ExpectedFiltered))),
              LAMBDA i : /\ IsNone(result.dbErrors[i])
                         /\ IsNone(result.want_present)
                              \/ PresentNow(TAGS[i].mac) = Get(result.want_present))

\* C13: search_tags computes the status of the first limit tags that pass the
\* query and type filters and returns, in roster order, the statuses of those
\* of them whose is_present is the one asked for (all when none is asked
\* for), leaving out a tag whose status computation failed; total_found
\* counts the tags that pass the filters, returned the statuses returned.
C13_LimitBeforePresence ==
    (result.op = "search") =>
        /\ result.value.total_found = Len(ExpectedFiltered)
        /\ result.value.returned = Len(result.value.tags)
        /\ Len(result.value.tags) = Len(ExpectedKept)
        /\ \A k \in 1..Len(ExpectedKept) :
              /\ result.value.tags[k].name = TAGS[ExpectedKept[k]].name
              /\ result.value.tags[k].mac = TAGS[ExpectedKept[k]].mac
              /\ result.value.tags[k].is_present = PresentNow(TAGS[ExpectedKept[k]].mac)
              /\ \E latest \in FirstByTsDesc(sightings, TAGS[ExpectedKept[k]].mac) :
                    result.value.tags[k] =
                        get_tag_status_internal(now, TAGS[ExpectedKept[k]].mac,
                                                Some(TAGS[ExpectedKept[k]]), latest)

\* a search for present staff with limit 1: the first staff tag is absent,
\* the second is present and lies beyond the limit, so nothing is returned
C13_Witness ==
    /\ result.op = "search"
    /\ result.tag_type = TypeStaffUpper
    /\ result.want_present = Some(TRUE)
    /\ result.limit = 1
    /\ ~PresentNow(Nurse1Mac)
    /\ PresentNow(Nurse2Mac)
    /\ result.value.total_found = 3
    /\ result.value.returned = 0

\* C14: a query keeps exactly the tags whose name or mac contains it, the
\* case of the letters aside; a type keeps exactly the tags of that type, the
\* case of the letters aside (a part of a type keeps none); both together
\* keep the tags that pass both.
C14_SearchFilters ==
    (result.op = "search") =>
        /\ result.value.total_found =
              Cardinality(NamesMatching(result.query) \cap NamesOfType(result.tag_type))
        /\ (/\ IsNone(result.want_present)
            /\ result.limit >= Len(TAGS)
            /\ \A i \in 1..Len(TAGS) : IsNone(result.dbErrors[i])) =>
              /\ {result.value.tags[k].name : k \in 1..Len(result.value.tags)} =
                    NamesMatching(result.query) \cap NamesOfType(result.tag_type)
              /\ Len(result.value.tags) = result.value.total_found

\* a mixed-case query with a type in another case
C14_Witness ==
    /\ result.op = "search"
    /\ result.query = QuerySuffix
    /\ result.tag_type = TypeStaffMixed
    /\ {result.value.tags[k].name : k \in 1..Len(result.value.tags)} = {"NURSE_1", "DOCTOR_1"}

\* --------------------------------------------------------------- normalize

\* twelve hexadecimal characters
HexBodies ==
    {<<"A", "A", "B", "B", "C", "C", "D", "D", "E", "E", "F", "F">>,
     <<"A", "A", "B", "B", "C", "C", "D", "D", "E", "E", "0", "1">>,
     <<"0", "1", "2", "3", "4", "5", "6", "7", "8", "9", "A", "B">>,
     <<"C", "D", "E", "F", "0", "0", "1", "1", "2", "2", "3", "3">>,
     <<"F", "F", "F", "F", "F", "F", "F", "F", "F", "F", "F", "F">>,
     <<"0", "0", "0", "0", "0", "0", "0", "0", "0", "0", "0", "0">>,
     <<"D", "E", "A", "D", "B", "E", "E", "F", "C", "A", "F", "E">>,
     <<"1", "A", "2", "B", "3", "C", "4", "D", "5", "E", "6", "F">>}

RECURSIVE Grouped(_, _, _)
\* the characters in groups of n with sep between the groups
Grouped(chars, n, sep) ==
    IF Len(chars) <= n THEN chars
    ELSE SubSeq(chars, 1, n) \o sep \o Grouped(SubSeq(chars, n + 1, Len(chars)), n, sep)

\* the ways a mac is written: colons, hyphens, dots after every two or four
\* characters, spaces, nothing, and colons with whitespace around
Written(chars) ==
    {Grouped(chars, 2, <<":">>), Grouped(chars, 2, <<"-">>), Grouped(chars, 2, <<".">>),
     Grouped(chars, 4, <<".">>), Grouped(chars, 2, <<" ">>), chars,
     <<" ", "\t">> \o Grouped(chars, 2, <<":">>) \o <<"\r", "\n">>,
     Grouped(chars, 6, <<"-", ":">>)}

ValidMacStrings ==
    UNION {Written(body) \cup Written(LowerStr(body)) : body \in HexBodies}

\* strings that are no mac: too short, too long, with a character that is no
\* hexadecimal digit, with nothing but separators
InvalidMacStrings ==
    {<<>>, <<":">>, <<":", "-", ".", " ">>,
     ShortMac, NonHexMac,
     Tag1Colon \o <<"0">>, Tag1Colon \o <<":", "0", "0">>,
     SubSeq(Tag1Colon, 1, 16), Tag1BareLower \o <<"a">>, SubSeq(Tag1BareLower, 1, 11),
     <<"a", "a", ":", "b", "b", ":", "c", "c", ":", "d", "d", ":", "e", "e", ":", "0", "g">>,
     <<"A", "A", "_", "B", "B", "_", "C", "C", "_", "D", "D", "_", "E", "E", "_", "0", "1">>,
     <<"A", "A", "B", "B", "C", "C", "D", "D", "E", "E", "0", "Z">>,
     <<"0", "x", "A", "A", "B", "B", "C", "C", "D", "D", "E", "E">>}

NormalizeInputs ==
    {PyStr(chars) : chars \in ValidMacStrings \cup InvalidMacStrings} \cup {PyNone, PyInt(7)}

NextNormalize ==
    \/ \E mac \in NormalizeInputs : Normalize(mac)
    \/ Return

SpecNormalize == Init /\ [][NextNormalize]_vars

\* the characters of the string that are no colon, hyphen, dot or whitespace
KeptChars(chars) ==
    SelectSeq(chars, LAMBDA c : c \notin {":", "-", ".", " ", "\t", "\n", "\r", "\f"})

\* the upper-case form of a hexadecimal digit, "?" for any other character
HexDigit(c) ==
    IF c \in {"0", "1", "2", "3", "4", "5", "6", "7", "8", "9"} THEN c
    ELSE IF c \in {"a", "A"} THEN "A"
    ELSE IF c \in {"b", "B"} THEN "B"
    ELSE IF c \in {"c", "C"} THEN "C"
    ELSE IF c \in {"d", "D"} THEN "D"
    ELSE IF c \in {"e", "E"} THEN "E"
    ELSE IF c \in {"f", "F"} THEN "F"
    ELSE "?"

\* a non-empty string of exactly 12 hexadecimal characters, separators aside
IsMacString(mac) ==
    /\ mac.t = "str"
    /\ mac.v # <<>>
    /\ Len(KeptChars(mac.v)) = 12
    /\ \A i \in 1..12 : HexDigit(KeptChars(mac.v)[i]) # "?"

\* C15: normalize_mac succeeds exactly on the non-empty strings that,
\* separators removed, are 12 hexadecimal characters, and returns these 12
\* characters in upper case with a colon after every second one (17
\* characters); on every other input it fails.
C15_NormalizeDomainAndForm ==
    (result.op = "normalize") =>
        IF IsMacString(result.mac)
        THEN /\ IsNone(result.raised)
             /\ Len(Get(result.value)) = 17
             /\ \A i \in 1..17 :
                   Get(result.value)[i] =
                       IF i % 3 = 0 THEN ":"
                       ELSE HexDigit(KeptChars(result.mac.v)[i - (i \div 3)])
        ELSE /\ ~IsNone(result.raised)
             /\ Get(result.raised).type = "ValueError"
             /\ IsNone(result.value)

\* a mac written in lower case with dots after every four characters
C15_Witness ==
    /\ result.op = "normalize"
    /\ result.mac = PyStr(<<"d", "e", "a", "d", ".", "b", "e", "e", "f", ".", "c", "a", "f", "e">>)
    /\ result.value = Some(<<"D", "E", ":", "A", "D", ":", "B", "E", ":", "E", "F", ":",
                             "C", "A", ":", "F", "E">>)

\* the two strings are macs and differ in letter case and separators only
SameMac(a, b) ==
    /\ IsMacString(a)
    /\ IsMacString(b)
    /\ \A i \in 1..12 : HexDigit(KeptChars(a.v)[i]) = HexDigit(KeptChars(b.v)[i])

\* C16: normalizing what normalize_mac returned gives it back unchanged, and
\* every string that differs from a valid mac string only in letter case or
\* separators normalizes to the same value.
C16_NormalizeIdempotent ==
    (result.op = "normalize" /\ IsMacString(result.mac)) =>
        /\ ~IsNone(result.value)
        /\ Get(result.again) = [raised |-> None, value |-> Get(result.value)]
        /\ \A other \in NormalizeInputs :
              SameMac(result.mac, other) =>
                  normalize_mac(other) = [raised |-> None, value |-> Get(result.value)]

\* "aabbccddeeff" gives "AA:BB:CC:DD:EE:FF", as "aa:bb:cc:dd:ee:ff" and
\* "AA-BB-CC-DD-EE-FF" do
C16_Witness ==
    /\ result.op = "normalize"
    /\ result.mac = PyStr(<<"a", "a", "b", "b", "c", "c", "d", "d", "e", "e", "f", "f">>)
    /\ result.value = Some(<<"A", "A", ":", "B", "B", ":", "C", "C", ":", "D", "D", ":",
                             "E", "E", ":", "F", "F">>)
    /\ result.again = Some([raised |-> None, value |-> Get(result.value)])
    /\ PyStr(Get(result.value)) \in NormalizeInputs
    /\ \E up \in NormalizeInputs :
          /\ up.t = "str"
          /\ up.v = <<"A", "A", "-", "B", "B", "-", "C", "C", "-", "D", "D", "-",
                      "E", "E", "-", "F", "F">>
          /\ SameMac(result.mac, up)

\* ---------------------------------------------------------------- registry

\* the macs the registry is asked for
LookupMacs ==
    {PyStr(Tag1Colon), PyStr(Tag1HyphenLower), PyStr(Tag2DotLower), PyStr(Nurse1Mac),
     PyStr(UnknownMac), PyStr(ShortMac), PyNone}

\* the names a caller writes
WrittenNames == {"RENAMED", "WHEELCHAIR_A"}

\* ingest_packet is called while the roster is as it was loaded
NextRegistry ==
    \/ \E mac \in LookupMacs : Lookup(mac)
    \/ GetAllTags
    \/ \E name \in WrittenNames : MutateReturnedTag(name)
    \/ MutateReturnedRoster
    \/ \E name \in WrittenNames : MutateReturnedRosterEntry(name)
    \/ /\ registry = TAGS
       /\ \E mac \in {PyStr(Tag2DotLower), PyStr(UnknownMac)} :
             IngestPacket(Call(mac, PyInt(-65), PyNone, PyNone), None)
    \/ Return

SpecRegistry == Init /\ [][NextRegistry]_vars

\* C17: what a caller does to a roster or a tag record that an accessor
\* returned changes nothing of what a later get_tag_by_mac or get_all_tags
\* call returns: they return the registry as it was loaded.
C17_RegistryCopiesAreIndependent ==
    /\ (result.op = "lookup" /\ ~result.mutated) =>
          result.value = get_tag_by_mac(result.mac)
    /\ (result.op = "all_tags" /\ ~result.mutated) => result.value = TAGS

\* -------------------------------------------------------------- concurrency

\* the longest batch of a concurrent caller
MaxConcurrentBatch == 2

ConcurrentCalls ==
    {Call(PyStr(Tag1Colon), PyInt(-65), PyNone, PyNone),
     Call(PyStr(UnknownMac), PyInt(-65), PyNone, PyNone)}

ConcurrentBatches == SeqsUpTo({GoodKnown, BadMac}, MaxConcurrentBatch)

NextConcurrent ==
    \/ \E c \in Callers, call \in ConcurrentCalls : StartIngest(c, call)
    \/ \E c \in Callers : RunIngest(c, None)
    \/ \E c \in Callers, packets \in ConcurrentBatches : StartBatch(c, packets)
    \/ \E c \in Callers, dbError \in DbErrors : RunBatchStep(c, dbError)
    \/ \E c \in Callers : ReturnBatch(c)
    \/ \E c \in Callers : EndCall(c)

SpecConcurrent == Init /\ [][NextConcurrent]_vars

\* the success results caller c's call has returned
SuccessesOf(c) ==
    IF calls[c].op = "ingest" /\ calls[c].state = "returned" /\ IsNone(calls[c].raised)
    THEN <<Get(calls[c].value)>>
    ELSE IF calls[c].op = "batch" /\ calls[c].state = "returned"
    THEN calls[c].results.results
    ELSE <<>>

FailedPositions ==
    SelectSeq([i \in 1..Len(result.packets) |-> i],
              LAMBDA i : PacketFails(result.packets[i], result.dbErrors[i]))

IngestedPositions ==
    SelectSeq([i \in 1..Len(result.packets) |-> i],
              LAMBDA i : ~PacketFails(result.packets[i], result.dbErrors[i]))

\* C19: in a result that batch_ingest returns, total is the number of
\* packets and the sum of successful and failed; there are failed failure
\* records, with strictly increasing indices (those of the failing packets),
\* and successful ingest results, in the order of their packets.
C19_BatchResultTally ==
    (result.op = "batch" /\ IsNone(result.raised)) =>
        LET v == Get(result.value)
        IN /\ v.total = Len(result.packets)
           /\ v.total = v.successful + v.failed
           /\ Len(v.errors) = v.failed
           /\ Len(v.results) = v.successful
           /\ \A k, m \in 1..Len(v.errors) : k < m => v.errors[k].index < v.errors[m].index
           /\ Len(v.errors) = Len(FailedPositions)
           /\ \A k \in 1..Len(v.errors) : v.errors[k].index = FailedPositions[k] - 1
           /\ Len(v.results) = Len(IngestedPositions)
           /\ \A k \in 1..Len(v.results) :
                 v.results[k].mac = ExpectedMac(DictGet(result.packets[IngestedPositions[k]].mac))
           /\ \A k, m \in 1..Len(v.results) :
                 k < m => v.results[k].sighting_id < v.results[m].sighting_id

\* three packets, the one at index 1 with a mac that does not parse:
\* total 3, successful 2, failed 1
C19_Witness ==
    /\ result.op = "batch"
    /\ result.packets = <<GoodKnown, BadMac, GoodUnknown>>
    /\ IsNone(result.raised)
    /\ Get(result.value).total = 3
    /\ Get(result.value).successful = 2
    /\ Get(result.value).failed = 1
    /\ Get(result.value).errors[1].index = 1

\* ------------------------------------------------------------ the store

\* searches run against the store: every presence filter, with and without
\* failing status queries
StoreSearches ==
    {search \in Searches : /\ search.query = PyNone
                           /\ search.tag_type = PyNone
                           /\ search.limit = DefaultSearchLimit}

\* ingests of every written form of a registered and of an unregistered mac,
\* of macs that do not parse, and of every timestamp input
StoreCalls ==
    {[BaseCall EXCEPT !.mac = m] : m \in MacInputs}
    \cup {[BaseCall EXCEPT !.timestamp = t] : t \in TimestampInputs}
    \cup {Call(PyStr(UnknownMac), PyInt(0), PyInt(T0 - 60), PyNone)}

NextStore ==
    \/ \E call \in StoreCalls, dbError \in DbErrors : IngestPacket(call, dbError)
    \/ \E mac \in QueryMacInputs, dbError \in DbErrors : GetTagStatus(mac, dbError)
    \/ \E dbErrors \in StatusErrorPatterns : GetAllTagStatuses(dbErrors)
    \/ \E mac \in QueryMacInputs, dbError \in DbErrors :
          GetTagHistory(mac, DefaultHours, DefaultLimit, dbError)
    \/ \E search \in StoreSearches :
          SearchTags(search.query, search.tag_type, search.want_present, search.limit,
                     search.dbErrors)
    \/ Return
    \/ Tick

SpecStore == Init /\ [][NextStore]_vars

IdsOf(rows) == {rows[i].id : i \in 1..Len(rows)}

\* the step is an ingest_packet call that returned an IngestResult
IngestSucceeds ==
    /\ result = Idle
    /\ result'.op = "ingest"
    /\ IsNone(result'.raised)

\* the step is any other call: a failed ingest, tagStatus, allTagStatuses,
\* tagHistory or searchTags
OtherCall ==
    /\ result = Idle
    /\ result' # Idle
    /\ ~IngestSucceeds

\* C20: a successful ingest adds exactly one row, with an id no row has; a
\* failed ingest, tagStatus, allTagStatuses, tagHistory and searchTags add
\* none; no step changes or removes a row that is written.
C20_StoreIsAppendOnly ==
    [][/\ Len(sightings') >= Len(sightings)
       /\ \A i \in 1..Len(sightings) : sightings'[i] = sightings[i]
       /\ IngestSucceeds =>
             /\ Len(sightings') = Len(sightings) + 1
             /\ sightings'[Len(sightings')].id \notin IdsOf(sightings)
       /\ OtherCall => sightings' = sightings]_vars

\* an ingest has just added its row to a store that already held one for
\* the same mac
C20_Witness ==
    /\ result.op = "ingest"
    /\ IsNone(result.raised)
    /\ Len(result.before) >= 1
    /\ Len(sightings) = Len(result.before) + 1
    /\ SubSeq(sightings, 1, Len(result.before)) = result.before
    /\ sightings[Len(sightings)].id = Get(result.value).sighting_id
    /\ sightings[Len(sightings)].id \notin IdsOf(result.before)
    /\ \E i \in 1..Len(result.before) :
          result.before[i].mac = sightings[Len(sightings)].mac

\* ------------------------------------------------------- the latest sighting

\* timestamps inside and outside the timeout before the first clock reading,
\* and the default (the time of the ingest)
LatestTimestamps ==
    {PyNone, PyInt(T0 - 60), PyInt(T0 - 120), PyInt(T0 - 60 * TAG_TIMEOUT_MINUTES - 1)}

\* rssis of two signal classes, and zero, which has none
LatestRssis == {PyInt(-40), PyInt(-65), PyInt(0)}

LatestCalls ==
    {Call(PyStr(Tag1Colon), r, t, PyNone) : r \in LatestRssis, t \in LatestTimestamps}
    \cup {Call(PyStr(Tag2DotLower), PyInt(-65), PyInt(T0 - 60), PyNone)}

LatestMacs == {PyStr(Tag1HyphenLower), PyStr(Tag2DotLower)}

NextLatest ==
    \/ \E call \in LatestCalls : IngestPacket(call, None)
    \/ \E mac \in LatestMacs, dbError \in DbErrors : GetTagStatus(mac, dbError)
    \/ Return
    \/ Tick

SpecLatest == Init /\ [][NextLatest]_vars

\* the rows of the mac among rows that hold its greatest ts_utc
GreatestTsRows(rows, mac) ==
    {r \in RowsOf(rows, mac) : \A y \in RowsOf(rows, mac) : y.ts_utc <= r.ts_utc}

\* the row an ingest has just written
WrittenRow == sightings[Len(sightings)]

\* C21: a status reports the timestamp, the rssi, the presence and the signal
\* class of a sighting of the mac with the greatest ts_utc, whatever the order
\* of insertion; an ingest with a timestamp strictly older than the mac's
\* greatest leaves the sightings with the greatest ts_utc as they were, and
\* one with a strictly newer timestamp becomes the only one.
C21_StatusFollowsGreatestTimestamp ==
    /\ (result.op = "status" /\ IsNone(result.raised)) =>
          LET v == Get(result.value)
          IN IF RowsOf(sightings, v.mac) = {}
             THEN /\ IsNone(v.last_seen_utc)
                  /\ IsNone(v.last_rssi)
                  /\ ~v.is_present
                  /\ IsNone(v.signal_strength)
             ELSE \E r \in GreatestTsRows(sightings, v.mac) :
                     /\ v.last_seen_utc = Some(r.ts_utc)
                     /\ v.last_rssi = Some(r.rssi)
                     /\ v.is_present =
                           (ClockReadings[now] - r.ts_utc <= 60 * TAG_TIMEOUT_MINUTES)
                     /\ v.signal_strength = signal_strength(Some(r))
    /\ (/\ result.op = "ingest"
        /\ IsNone(result.raised)
        /\ RowsOf(result.before, WrittenRow.mac) # {}) =>
          LET earlier == GreatestTsRows(result.before, WrittenRow.mac)
          IN /\ (\A r \in earlier : WrittenRow.ts_utc < r.ts_utc) =>
                   GreatestTsRows(sightings, WrittenRow.mac) = earlier
             /\ (\A r \in earlier : WrittenRow.ts_utc > r.ts_utc) =>
                   GreatestTsRows(sightings, WrittenRow.mac) = {WrittenRow}

\* the sighting written last is strictly older and has another rssi than
\* the one written first, and the status reports the one written first
C21_Witness ==
    /\ result.op = "status"
    /\ IsNone(result.raised)
    /\ Len(sightings) = 2
    /\ sightings[1].mac = Get(result.value).mac
    /\ sightings[2].mac = Get(result.value).mac
    /\ sightings[2].ts_utc < sightings[1].ts_utc
    /\ sightings[2].rssi # sightings[1].rssi
    /\ Get(result.value).last_seen_utc = Some(sightings[1].ts_utc)
    /\ Get(result.value).last_rssi = Some(sightings[1].rssi)

\* ---------------------------------------------------------- unregistered macs

\* the macs of the static roster
RosterMacs == {TAGS[i].mac : i \in 1..Len(TAGS)}

\* the macs that have sightings in the store and are not of the roster
StoredUnregisteredMacs == {sightings[i].mac : i \in 1..Len(sightings)} \ RosterMacs

\* an entry of allTagStatuses or searchTags is for a mac of the roster, and
\* what it reports as last seen is a sighting of that mac
EntryIsOfRoster(entry) ==
    /\ entry.mac \in RosterMacs
    /\ ("error" \notin DOMAIN entry /\ ~IsNone(entry.last_seen_utc)) =>
          \E r \in RowsOf(sightings, entry.mac) :
             /\ entry.last_seen_utc = Some(r.ts_utc)
             /\ entry.last_rssi = Some(r.rssi)

\* C22: tagStatus and tagHistory for a mac that has sightings in the store
\* and is not of the roster fail with TagNotFound, and every entry of
\* allTagStatuses and of searchTags is for a mac of the roster.
C22_UnregisteredMacsAreNotSurfaced ==
    /\ (/\ result.op \in {"status", "history"}
        /\ ~NormalizeFails(result.mac)
        /\ NormalizeMac(result.mac) \in StoredUnregisteredMacs) =>
          /\ ~IsNone(result.raised)
          /\ Get(result.raised).type = "TagNotFoundException"
          /\ IsNone(result.value)
    /\ (result.op = "all_statuses") =>
          \A i \in 1..Len(result.value) : EntryIsOfRoster(result.value[i])
    /\ (result.op = "search") =>
          \A i \in 1..Len(result.value.tags) : EntryIsOfRoster(result.value.tags[i])

\* the history of a mac that is not of the roster is asked for, written
\* another way than it was ingested, while the store holds its sightings only
C22_Witness ==
    /\ result.op = "history"
    /\ result.mac = PyStr(UnknownHyphenLower)
    /\ Len(sightings) = MaxSightings
    /\ \A i \in 1..Len(sightings) : sightings[i].mac = UnknownMac
    /\ ~IsNone(result.raised)
    /\ Get(result.raised).type = "TagNotFoundException"

====
